------------------------------ MODULE Spec2Model ------------------------------
(***************************************************************************)
(* Model of the Crono Public API node (n8n-nodes-crono-public-api):         *)
(* CronoPublicApi.execute, the helpers it calls (getJsonParameter,          *)
(* addIfNotEmpty, getAdditionalFields, parseCsv, cronoApiRequest) and the   *)
(* per-resource dispatch that turns the parameters of one input item into   *)
(* one HTTP request.                                                        *)
(***************************************************************************)
EXTENDS Integers, Sequences, FiniteSets, TLC

VARIABLES
    items,        \* this.getInputData(): one parameter bag per input item
    credentials,  \* the cronoPublicApi credentials (baseUrl)
    itemIndex,    \* loop counter of execute (0-based, as in the code)
    pc,           \* "loop" | "await" | "returned" | "thrown"
    request,      \* options of the HTTP call in flight, or NoRequest
    calls,        \* every HTTP call issued so far, in order, with its outcome
    returnData,   \* the accumulator of execute
    error,        \* the error thrown out of execute, or NoError
    result        \* what execute returned (a sequence of one output), or NoResult

vars == <<items, credentials, itemIndex, pc, request, calls, returnData, error, result>>

\* ---------------------------------------------------------------- bounds
MaxItems == 3     \* longest multi-item batch
MaxNum == 2       \* numeric inputs range over 0..MaxNum
MaxGroups == 2    \* most groups declared in an import collection

\* ------------------------------------------------------- JavaScript values
\* A value carries its type in the name of its only field, so that values of
\* different types can be compared.
Str(s) == [str |-> s]
Num(n) == [num |-> n]
Bool(b) == [bool |-> b]
Obj(o) == [obj |-> o]      \* o: a function from keys (strings) to values
Arr(a) == [arr |-> a]      \* a: a sequence of values
Undefined == [undef |-> TRUE]
Null == [null |-> TRUE]
NaN == [nan |-> TRUE]

IsStr(v) == DOMAIN v = {"str"}
IsNum(v) == DOMAIN v = {"num"}
IsBool(v) == DOMAIN v = {"bool"}
IsObj(v) == DOMAIN v = {"obj"}
IsArr(v) == DOMAIN v = {"arr"}

EmptyObject == <<>>

\* if (value): JavaScript truthiness
Truthy(v) ==
    CASE IsBool(v) -> v.bool
      [] IsNum(v) -> v.num # 0
      [] IsStr(v) -> v.str # ""
      [] IsObj(v) -> TRUE
      [] IsArr(v) -> TRUE
      [] OTHER -> FALSE

\* `${value}` inside a template literal
Template(v) ==
    CASE IsStr(v) -> v.str
      [] IsNum(v) -> ToString(v.num)
      [] IsBool(v) -> IF v.bool THEN "true" ELSE "false"
      [] v = Null -> "null"
      [] v = NaN -> "NaN"
      [] OTHER -> "undefined"

\* target[key] = value on a plain object
SetKey(o, k, v) == [x \in DOMAIN o \cup {k} |-> IF x = k THEN v ELSE o[x]]

\* Object.assign(target, source) and { ...target, ...source } for two objects
Assign(o, p) == [x \in DOMAIN o \cup DOMAIN p |-> IF x \in DOMAIN p THEN p[x] ELSE o[x]]

\* ------------------------------------------------------------ characters
\* The characters of a text.  The texts that hold commas or blanks and the
\* JSON texts that are not objects are spelled out; every other text stands
\* as one unit.
Chars(s) ==
    CASE s = "" -> <<>>
      [] s = "1, 2,3" -> <<"1", ",", " ", "2", ",", "3">>
      [] s = " ,7, ," -> <<" ", ",", "7", ",", " ", ",">>
      [] s = "a,b" -> <<"a", ",", "b">>
      [] s = ", ," -> <<",", " ", ",">>
      [] s = "5" -> <<"5">>
      [] s = "true" -> <<"t", "r", "u", "e">>
      [] s = "false" -> <<"f", "a", "l", "s", "e">>
      [] s = "null" -> <<"n", "u", "l", "l">>
      [] s = "\"x\"" -> <<"\"", "x", "\"">>
      [] s = "[]" -> <<"[", "]">>
      [] s = "{invalid" -> <<"{", "i", "n", "v", "a", "l", "i", "d">>
      [] OTHER -> <<s>>

RECURSIVE Join(_)
Join(cs) == IF cs = <<>> THEN "" ELSE Head(cs) \o Join(Tail(cs))

\* Object.keys(value).length
ObjectKeysLength(v) ==
    CASE IsObj(v) -> Cardinality(DOMAIN v.obj)
      [] IsArr(v) -> Len(v.arr)
      [] IsStr(v) -> Len(Chars(v.str))
      [] OTHER -> 0

\* { ...value }: the own enumerable properties of a value
Spread(v) ==
    CASE IsObj(v) -> v.obj
      [] IsArr(v) -> [k \in {ToString(i - 1) : i \in 1..Len(v.arr)} |->
                        v.arr[CHOOSE i \in 1..Len(v.arr) : ToString(i - 1) = k]]
      [] IsStr(v) -> LET cs == Chars(v.str) IN
                     [k \in {ToString(i - 1) : i \in 1..Len(cs)} |->
                        Str(cs[CHOOSE i \in 1..Len(cs) : ToString(i - 1) = k])]
      [] OTHER -> EmptyObject

\* ------------------------------------------------------------- JSON.parse
\* JSON.parse on the JSON texts the inputs use; any other text is not JSON
\* and makes JSON.parse throw a SyntaxError.
JsonParse(s) ==
    CASE s = "{}" -> [ok |-> TRUE, val |-> Obj(EmptyObject)]
      [] s = "{\"k\":1}" -> [ok |-> TRUE, val |-> Obj([x \in {"k"} |-> Num(1)])]
      [] s = "{\"Name\":\"raw\"}" -> [ok |-> TRUE, val |-> Obj([x \in {"Name"} |-> Str("raw")])]
      [] s = "{\"limit\":9,\"x\":\"y\"}" ->
            [ok |-> TRUE, val |-> Obj([x \in {"limit", "x"} |-> IF x = "limit" THEN Num(9) ELSE Str("y")])]
      [] s = "[]" -> [ok |-> TRUE, val |-> Arr(<<>>)]
      [] s = "5" -> [ok |-> TRUE, val |-> Num(5)]
      [] s = "true" -> [ok |-> TRUE, val |-> Bool(TRUE)]
      [] s = "false" -> [ok |-> TRUE, val |-> Bool(FALSE)]
      [] s = "null" -> [ok |-> TRUE, val |-> Null]
      [] s = "\"x\"" -> [ok |-> TRUE, val |-> Str("x")]
      [] OTHER -> [ok |-> FALSE]

\* ------------------------------------------------------------ the errors
NoError == [kind |-> "none"]
JsonError(parameterName, idx) ==
    [kind |-> "NodeOperationError",
     message |-> "Parameter \"" \o parameterName \o "\" is not valid JSON.",
     itemIndex |-> idx]
UnsupportedResourceErrorMut(resource, idx) ==
    [kind |-> "NodeOperationError",
     message |-> "Unsupported resource: " \o Template(resource),
     itemIndex |-> 0]
UnsupportedResourceError(resource, idx) ==
    [kind |-> "NodeOperationError",
     message |-> "Unsupported resource: " \o Template(resource),
     itemIndex |-> idx]
HttpError == [kind |-> "HttpError"]

Ok(v) == [ok |-> TRUE, val |-> v]
Fail(e) == [ok |-> FALSE, err |-> e]

\* ------------------------------------------------- this.getNodeParameter
\* The value of a parameter of one item, or the fallback when it is not set.
getNodeParameter(item, parameterName, defaultValue) ==
    IF parameterName \in DOMAIN item THEN item[parameterName] ELSE defaultValue

\* ------------------------------------------------------- getJsonParameter
getJsonParameterParsedMut(item, parameterName, idx, defaultValue) ==
    LET try(value, parsed) ==
            IF ~parsed.ok THEN Fail(JsonError(parameterName, idx)) ELSE Ok(parsed.val)
        of(value) ==
            IF value = Str("") \/ value = Undefined \/ value = Null
            THEN Ok(defaultValue)
            ELSE IF IsStr(value) THEN try(value, JsonParse(value.str)) ELSE Ok(value)
    IN of(getNodeParameter(item, parameterName, defaultValue))
getJsonParameterMut(item, parameterName, idx, defaultValue) ==
    LET try(value, parsed) ==
            IF ~parsed.ok
            THEN Fail(JsonError(parameterName, idx))
            ELSE IF Truthy(parsed.val) /\ (IsObj(parsed.val) \/ IsArr(parsed.val))
                 THEN Ok(parsed.val)
                 ELSE Ok(value)
        of(value) ==
            IF value = Undefined \/ value = Null
            THEN Ok(defaultValue)
            ELSE IF IsStr(value) THEN try(value, JsonParse(value.str)) ELSE Ok(value)
    IN of(getNodeParameter(item, parameterName, defaultValue))
getJsonParameter(item, parameterName, idx, defaultValue) ==
    LET try(value, parsed) ==
            IF ~parsed.ok
            THEN Fail(JsonError(parameterName, idx))
            ELSE IF Truthy(parsed.val) /\ (IsObj(parsed.val) \/ IsArr(parsed.val))
                 THEN Ok(parsed.val)
                 ELSE Ok(value)
        of(value) ==
            IF value = Str("") \/ value = Undefined \/ value = Null
            THEN Ok(defaultValue)
            ELSE IF IsStr(value) THEN try(value, JsonParse(value.str)) ELSE Ok(value)
    IN of(getNodeParameter(item, parameterName, defaultValue))

\* ---------------------------------------------------------- addIfNotEmpty
addIfNotEmptyMut(target, key, value) ==
    IF value # Undefined /\ value # Null THEN SetKey(target, key, value) ELSE target
addIfNotEmpty(target, key, value) ==
    IF value # Undefined /\ value # Null /\ value # Str("")
    THEN SetKey(target, key, value)
    ELSE target

\* ---------------------------------------------------- getAdditionalFields
RECURSIVE AdditionalLoopNotEmptyMut(_, _)
AdditionalLoopNotEmptyMut(entries, additional) ==
    IF entries = <<>> THEN additional
    ELSE LET add(field, value) ==
                IF Truthy(field) THEN addIfNotEmpty(additional, Template(field), value)
                ELSE additional
         IN AdditionalLoopNotEmptyMut(Tail(entries),
                add(getNodeParameter(Head(entries), "field", Undefined),
                    getNodeParameter(Head(entries), "value", Undefined)))
RECURSIVE AdditionalLoopMut(_, _)
AdditionalLoopMut(entries, additional) ==
    IF entries = <<>> THEN additional
    ELSE LET add(field, value) ==
                IF Truthy(field) /\ Template(field) \notin DOMAIN additional
                THEN SetKey(additional, Template(field),
                            IF value = Undefined \/ value = Null THEN Str("") ELSE value)
                ELSE additional
         IN AdditionalLoopMut(Tail(entries),
                add(getNodeParameter(Head(entries), "field", Undefined),
                    getNodeParameter(Head(entries), "value", Undefined)))
RECURSIVE AdditionalLoop(_, _)
AdditionalLoop(entries, additional) ==
    IF entries = <<>> THEN additional
    ELSE LET add(field, value) ==
                IF Truthy(field)
                THEN SetKey(additional, Template(field),
                            IF value = Undefined \/ value = Null THEN Str("") ELSE value)
                ELSE additional
         IN AdditionalLoop(Tail(entries),
                add(getNodeParameter(Head(entries), "field", Undefined),
                    getNodeParameter(Head(entries), "value", Undefined)))

getAdditionalFields(item, parameterName) ==
    AdditionalLoop(getNodeParameter(item, parameterName, Arr(<<>>)).arr, EmptyObject)

\* ---------------------------------------------------------------- parseCsv
\* value.split(','): the segments between the commas
RECURSIVE Split(_, _, _)
Split(cs, cur, acc) ==
    IF cs = <<>> THEN Append(acc, cur)
    ELSE IF Head(cs) = "," THEN Split(Tail(cs), <<>>, Append(acc, cur))
    ELSE Split(Tail(cs), Append(cur, Head(cs)), acc)

\* item.trim()
RECURSIVE TrimLeft(_)
TrimLeft(cs) == IF cs # <<>> /\ Head(cs) = " " THEN TrimLeft(Tail(cs)) ELSE cs
RECURSIVE TrimRight(_)
TrimRight(cs) ==
    IF cs # <<>> /\ cs[Len(cs)] = " " THEN TrimRight(SubSeq(cs, 1, Len(cs) - 1)) ELSE cs
Trim(cs) == TrimRight(TrimLeft(cs))

parseCsvSegmentsMut(value) ==
    IF ~Truthy(value) THEN <<>>
    ELSE SelectSeq(Split(Chars(value.str), <<>>, <<>>), LAMBDA t : Len(t) > 0)
\* the trimmed, non-empty segments, each as its characters
parseCsvSegments(value) ==
    IF ~Truthy(value) THEN <<>>
    ELSE LET trimmed(segments) == [i \in 1..Len(segments) |-> Trim(segments[i])]
         IN SelectSeq(trimmed(Split(Chars(value.str), <<>>, <<>>)), LAMBDA t : Len(t) > 0)

parseCsv(value) ==
    LET join(segments) == [i \in 1..Len(segments) |-> Str(Join(segments[i]))]
    IN join(parseCsvSegments(value))

\* parseInt(id, 10) on the characters of a trimmed segment: the leading
\* decimal digits, NaN when there is none
Digit(c) ==
    CASE c = "0" -> 0 [] c = "1" -> 1 [] c = "2" -> 2 [] c = "3" -> 3 [] c = "4" -> 4
      [] c = "5" -> 5 [] c = "6" -> 6 [] c = "7" -> 7 [] c = "8" -> 8 [] c = "9" -> 9
      [] OTHER -> -1
RECURSIVE ParseDigits(_, _, _)
ParseDigits(cs, n, seen) ==
    IF cs = <<>> \/ Digit(Head(cs)) < 0
    THEN IF seen THEN Num(n) ELSE NaN
    ELSE ParseDigits(Tail(cs), 10 * n + Digit(Head(cs)), TRUE)
parseInt(cs) == ParseDigits(cs, 0, FALSE)

\* parseCsv(value).map((id) => parseInt(id, 10))
parseCsvInts(value) ==
    LET map(segments) == [i \in 1..Len(segments) |-> parseInt(segments[i])]
    IN map(parseCsvSegments(value))

\* ------------------------------------------------------ the field tables
\* One entry per field of a structured body, in the order of the code.
\*   notEmpty   addIfNotEmpty(tgt, key, <param>)
\*   truthy     if (<param>) tgt[key] = <param>
\*   flag       if (<param>) tgt[key] = true
\*   always     tgt[key] = <param>
\*   multi      if (<param>.length) tgt[key] = <param>
\*   json       v = getJsonParameter(<param>); if (Object.keys(v).length) tgt[key] = v
\*   csv        v = parseCsv(<param>); if (v.length) tgt[key] = v
\*   csvInt     v = parseCsv(<param>); if (v.length) tgt[key] = v.map(parseInt)
\*   propKeys   if (<param> && Object.keys(<param>).length) tgt[key] = <param>
\*   attach     if (Object.keys(<param>).length) tgt[key] = <param>   (param: a sub-object)
\* def is the fallback handed to getNodeParameter; type is the type the node
\* description declares for the parameter (list: a string described as a
\* comma-separated list; object: a local sub-object).
F(kind, tgt, key, param, def, type) ==
    [kind |-> kind, tgt |-> tgt, key |-> key, param |-> param, def |-> def, type |-> type]

companySearchFields == <<
    F("notEmpty", "searchBody", "Name", "companySearchName", Str(""), "string"),
    F("multi", "searchBody", "Status", "companySearchStatus", Arr(<<>>), "multiOptions"),
    F("json", "searchBody", "ExternalProperties", "companySearchExternalProperties", Obj(<<>>), "json"),
    F("json", "searchBody", "ExternalPropertyNumericFilters", "companySearchExternalPropertyNumericFilters", Obj(<<>>), "json"),
    F("csvInt", "searchBody", "ExternalPropertyEmptyIds", "companySearchExternalPropertyEmptyIds", Str(""), "list"),
    F("notEmpty", "searchBody", "Industry", "companySearchIndustry", Str(""), "string"),
    F("notEmpty", "searchBody", "Country", "companySearchCountry", Str(""), "string"),
    F("truthy", "searchBody", "NumberOfEmployeesMin", "companySearchNumberOfEmployeesMin", Num(0), "number"),
    F("truthy", "searchBody", "NumberOfEmployeesMax", "companySearchNumberOfEmployeesMax", Num(0), "number"),
    F("notEmpty", "searchBody", "CurrentSolution", "companySearchCurrentSolution", Str(""), "string"),
    F("notEmpty", "searchBody", "UserId", "companySearchUserId", Str(""), "string"),
    F("flag", "searchBody", "NoUser", "companySearchNoUser", Bool(FALSE), "boolean"),
    F("notEmpty", "searchBody", "CreatedDateMin", "companySearchCreatedDateMin", Str(""), "dateTime"),
    F("notEmpty", "searchBody", "CreatedDateMax", "companySearchCreatedDateMax", Str(""), "dateTime"),
    F("notEmpty", "searchBody", "LastActivityDateMin", "companySearchLastActivityDateMin", Str(""), "dateTime"),
    F("notEmpty", "searchBody", "LastActivityDateMax", "companySearchLastActivityDateMax", Str(""), "dateTime"),
    F("notEmpty", "searchBody", "LastModifiedDateMin", "companySearchLastModifiedDateMin", Str(""), "dateTime"),
    F("notEmpty", "searchBody", "LastModifiedDateMax", "companySearchLastModifiedDateMax", Str(""), "dateTime"),
    F("flag", "searchBody", "HasLinkedin", "companySearchHasLinkedin", Bool(FALSE), "boolean"),
    F("flag", "searchBody", "HasWebsite", "companySearchHasWebsite", Bool(FALSE), "boolean"),
    F("flag", "searchBody", "HasPhone", "companySearchHasPhone", Bool(FALSE), "boolean"),
    F("flag", "searchBody", "HasActivities", "companySearchHasActivities", Bool(FALSE), "boolean"),
    F("flag", "searchBody", "HasReplies", "companySearchHasReplies", Bool(FALSE), "boolean"),
    F("flag", "searchBody", "HasActiveTasks", "companySearchHasActiveTasks", Bool(FALSE), "boolean"),
    F("flag", "searchBody", "HasEmailsOpened", "companySearchHasEmailsOpened", Bool(FALSE), "boolean"),
    F("flag", "searchBody", "HasClickedLinks", "companySearchHasClickedLinks", Bool(FALSE), "boolean"),
    F("always", "searchBody", "CleanEmptyName", "companySearchCleanEmptyName", Bool(TRUE), "boolean"),
    F("notEmpty", "searchBody", "Sort", "companySearchSort", Str(""), "options"),
    F("flag", "includes", "WithExternalValuesNoTags", "companySearchIncludeExternalValuesNoTags", Bool(FALSE), "boolean"),
    F("flag", "includes", "WithTags", "companySearchIncludeTags", Bool(FALSE), "boolean"),
    F("flag", "includes", "WithTasks", "companySearchIncludeTasks", Bool(FALSE), "boolean"),
    F("attach", "searchBody", "Includes", "includes", Undefined, "object"),
    F("notEmpty", "pagination", "Limit", "companySearchLimit", Num(50), "number"),
    F("notEmpty", "pagination", "Offset", "companySearchOffset", Num(0), "number"),
    F("attach", "searchBody", "Pagination", "pagination", Undefined, "object") >>

companyCreateFields == <<
    F("notEmpty", "data", "Name", "companyCreateName", Str(""), "string"),
    F("truthy", "data", "NumberOfEmployees", "companyCreateNumberOfEmployees", Num(0), "number"),
    F("notEmpty", "data", "AnnualRevenue", "companyCreateAnnualRevenue", Str(""), "string"),
    F("notEmpty", "data", "Website", "companyCreateWebsite", Str(""), "string"),
    F("notEmpty", "data", "Linkedin", "companyCreateLinkedin", Str(""), "string"),
    F("notEmpty", "data", "LinkedinNumericId", "companyCreateLinkedinNumericId", Str(""), "string"),
    F("notEmpty", "data", "Industry", "companyCreateIndustry", Str(""), "string"),
    F("notEmpty", "data", "Country", "companyCreateCountry", Str(""), "string"),
    F("notEmpty", "data", "Phone", "companyCreatePhone", Str(""), "string"),
    F("flag", "data", "CreateInCrm", "companyCreateCreateInCrm", Bool(FALSE), "boolean"),
    F("json", "data", "ExternalValues", "companyCreateExternalValues", Obj(<<>>), "json"),
    F("notEmpty", "data", "OwnerId", "companyCreateOwnerId", Str(""), "string"),
    F("truthy", "data", "UserId", "companyCreateUserId", Num(0), "number"),
    F("truthy", "data", "ListId", "companyCreateListId", Num(0), "number") >>

companyUpdateFields == <<
    F("notEmpty", "data", "Name", "companyUpdateName", Str(""), "string"),
    F("truthy", "data", "NumberOfEmployees", "companyUpdateNumberOfEmployees", Num(0), "number"),
    F("notEmpty", "data", "AnnualRevenue", "companyUpdateAnnualRevenue", Str(""), "string"),
    F("notEmpty", "data", "Website", "companyUpdateWebsite", Str(""), "string"),
    F("notEmpty", "data", "Linkedin", "companyUpdateLinkedin", Str(""), "string"),
    F("notEmpty", "data", "LinkedinNumericId", "companyUpdateLinkedinNumericId", Str(""), "string"),
    F("notEmpty", "data", "Industry", "companyUpdateIndustry", Str(""), "string"),
    F("notEmpty", "data", "Country", "companyUpdateCountry", Str(""), "string"),
    F("notEmpty", "data", "Phone", "companyUpdatePhone", Str(""), "string"),
    F("json", "data", "ExternalValues", "companyUpdateExternalValues", Obj(<<>>), "json"),
    F("truthy", "data", "UserId", "companyUpdateUserId", Num(0), "number") >>

companyImportFields == <<
    F("notEmpty", "data", "ImportType", "companyImportType", Str(""), "options"),
    F("notEmpty", "data", "FileName", "companyImportFileName", Str(""), "string"),
    F("flag", "data", "EnrichCompany", "companyImportEnrichCompany", Bool(FALSE), "boolean"),
    F("csvInt", "data", "AiExternalPropertiesIdsToGenerate", "companyImportAiExternalPropertyIds", Str(""), "list") >>

accountFields == <<
    F("notEmpty", "accountData", "Name", "name", Undefined, "string"),
    F("notEmpty", "accountData", "Website", "website", Undefined, "string"),
    F("notEmpty", "accountData", "Industry", "industry", Undefined, "string"),
    F("notEmpty", "accountData", "Country", "country", Undefined, "string"),
    F("notEmpty", "accountData", "Phone", "phone", Undefined, "string"),
    F("notEmpty", "accountData", "AnnualRevenue", "annualRevenue", Undefined, "string"),
    F("notEmpty", "accountData", "Linkedin", "linkedin", Undefined, "string"),
    F("truthy", "accountData", "NumberOfEmployees", "numberOfEmployees", Undefined, "number"),
    F("propKeys", "accountData", "ExternalValues", "externalValues", Undefined, "json"),
    F("truthy", "accountData", "ListId", "listId", Undefined, "number"),
    F("notEmpty", "accountData", "Owner", "owner", Undefined, "string") >>

contactSearchFields == <<
    F("notEmpty", "searchBody", "Name", "contactSearchName", Str(""), "string"),
    F("notEmpty", "searchBody", "Title", "contactSearchTitle", Str(""), "string"),
    F("notEmpty", "searchBody", "Country", "contactSearchCountry", Str(""), "string"),
    F("csv", "searchBody", "ObjectIds", "contactSearchObjectIds", Str(""), "list"),
    F("truthy", "searchBody", "UserId", "contactSearchUserId", Num(0), "number"),
    F("notEmpty", "searchBody", "Industry", "contactSearchIndustry", Str(""), "string"),
    F("notEmpty", "searchBody", "Location", "contactSearchLocation", Str(""), "string"),
    F("multi", "searchBody", "ActualStatus", "contactSearchActualStatus", Arr(<<>>), "multiOptions"),
    F("multi", "searchBody", "AccountStatus", "contactSearchAccountStatus", Arr(<<>>), "multiOptions"),
    F("json", "searchBody", "ExternalProperties", "contactSearchExternalProperties", Obj(<<>>), "json"),
    F("json", "searchBody", "ExternalPropertyNumericFilters", "contactSearchExternalPropertyNumericFilters", Obj(<<>>), "json"),
    F("csvInt", "searchBody", "ExternalPropertyEmptyIds", "contactSearchExternalPropertyEmptyIds", Str(""), "list"),
    F("json", "searchBody", "AccountExternalProperties", "contactSearchAccountExternalProperties", Obj(<<>>), "json"),
    F("json", "searchBody", "AccountExternalPropertyNumericFilters", "contactSearchAccountExternalPropertyNumericFilters", Obj(<<>>), "json"),
    F("csvInt", "searchBody", "AccountExternalPropertyEmptyIds", "contactSearchAccountExternalPropertyEmptyIds", Str(""), "list"),
    F("truthy", "searchBody", "NumberOfEmployeesMin", "contactSearchNumberOfEmployeesMin", Num(0), "number"),
    F("truthy", "searchBody", "NumberOfEmployeesMax", "contactSearchNumberOfEmployeesMax", Num(0), "number"),
    F("notEmpty", "searchBody", "CurrentSolution", "contactSearchCurrentSolution", Str(""), "string"),
    F("flag", "searchBody", "NoUser", "contactSearchNoUser", Bool(FALSE), "boolean"),
    F("flag", "searchBody", "InSequence", "contactSearchInSequence", Bool(FALSE), "boolean"),
    F("notEmpty", "searchBody", "AccountId", "contactSearchAccountId", Str(""), "string"),
    F("notEmpty", "searchBody", "CreatedDateMin", "contactSearchCreatedDateMin", Str(""), "dateTime"),
    F("notEmpty", "searchBody", "CreatedDateMax", "contactSearchCreatedDateMax", Str(""), "dateTime"),
    F("notEmpty", "searchBody", "LastActivityDateMin", "contactSearchLastActivityDateMin", Str(""), "dateTime"),
    F("notEmpty", "searchBody", "LastActivityDateMax", "contactSearchLastActivityDateMax", Str(""), "dateTime"),
    F("notEmpty", "searchBody", "LastModifiedDateMin", "contactSearchLastModifiedDateMin", Str(""), "dateTime"),
    F("notEmpty", "searchBody", "LastModifiedDateMax", "contactSearchLastModifiedDateMax", Str(""), "dateTime"),
    F("notEmpty", "searchBody", "Sort", "contactSearchSort", Str(""), "options"),
    F("flag", "searchBody", "IsPhoneValid", "contactSearchIsPhoneValid", Bool(FALSE), "boolean"),
    F("multi", "searchBody", "VerificationStatuses", "contactSearchVerificationStatuses", Arr(<<>>), "multiOptions"),
    F("flag", "searchBody", "FromContact", "contactSearchFromContact", Bool(FALSE), "boolean"),
    F("flag", "searchBody", "HasLinkedin", "contactSearchHasLinkedin", Bool(FALSE), "boolean"),
    F("flag", "searchBody", "HasEmail", "contactSearchHasEmail", Bool(FALSE), "boolean"),
    F("flag", "searchBody", "HasPhone", "contactSearchHasPhone", Bool(FALSE), "boolean"),
    F("flag", "searchBody", "HasMobilePhone", "contactSearchHasMobilePhone", Bool(FALSE), "boolean"),
    F("flag", "searchBody", "HasActivities", "contactSearchHasActivities", Bool(FALSE), "boolean"),
    F("flag", "searchBody", "HasReplies", "contactSearchHasReplies", Bool(FALSE), "boolean"),
    F("flag", "searchBody", "HasEmailsOpened", "contactSearchHasEmailsOpened", Bool(FALSE), "boolean"),
    F("flag", "searchBody", "HasConnectedCalls", "contactSearchHasConnectedCalls", Bool(FALSE), "boolean"),
    F("flag", "searchBody", "HasClickedLinks", "contactSearchHasClickedLinks", Bool(FALSE), "boolean"),
    F("flag", "searchBody", "HasActiveTasks", "contactSearchHasActiveTasks", Bool(FALSE), "boolean"),
    F("flag", "searchBody", "OptedOut", "contactSearchOptedOut", Bool(FALSE), "boolean"),
    F("notEmpty", "pagination", "Limit", "contactSearchLimit", Num(50), "number"),
    F("notEmpty", "pagination", "Offset", "contactSearchOffset", Num(0), "number"),
    F("attach", "searchBody", "Pagination", "pagination", Undefined, "object") >>

contactCreateFields == <<
    F("notEmpty", "data", "FirstName", "contactCreateFirstName", Str(""), "string"),
    F("notEmpty", "data", "LastName", "contactCreateLastName", Str(""), "string"),
    F("notEmpty", "data", "Phone", "contactCreatePhone", Str(""), "string"),
    F("notEmpty", "data", "MobilePhone", "contactCreateMobilePhone", Str(""), "string"),
    F("notEmpty", "data", "Email", "contactCreateEmail", Str(""), "string"),
    F("notEmpty", "data", "Title", "contactCreateTitle", Str(""), "string"),
    F("notEmpty", "data", "Location", "contactCreateLocation", Str(""), "string"),
    F("notEmpty", "data", "Linkedin", "contactCreateLinkedin", Str(""), "string"),
    F("notEmpty", "data", "LinkedinLeadId", "contactCreateLinkedinLeadId", Str(""), "string"),
    F("notEmpty", "data", "G2PublicId", "contactCreateG2PublicId", Str(""), "string"),
    F("notEmpty", "data", "Company", "contactCreateCompany", Str(""), "string"),
    F("notEmpty", "data", "CompanyLinkedin", "contactCreateCompanyLinkedin", Str(""), "string"),
    F("notEmpty", "data", "CompanyLinkedinNumericId", "contactCreateCompanyLinkedinNumericId", Str(""), "string"),
    F("notEmpty", "data", "CompanyWebsite", "contactCreateCompanyWebsite", Str(""), "string"),
    F("truthy", "data", "CompanyNumberOfEmployees", "contactCreateCompanyNumberOfEmployees", Num(0), "number"),
    F("notEmpty", "data", "CompanyIndustry", "contactCreateCompanyIndustry", Str(""), "string"),
    F("notEmpty", "data", "CompanyCountry", "contactCreateCompanyCountry", Str(""), "string"),
    F("notEmpty", "data", "CompanyAnnualRevenue", "contactCreateCompanyAnnualRevenue", Str(""), "string"),
    F("notEmpty", "data", "AccountId", "contactCreateAccountId", Str(""), "string"),
    F("flag", "data", "CreateAsLead", "contactCreateCreateAsLead", Bool(FALSE), "boolean"),
    F("json", "data", "ExternalValues", "contactCreateExternalValues", Obj(<<>>), "json"),
    F("truthy", "data", "StrategyId", "contactCreateStrategyId", Num(0), "number"),
    F("json", "data", "GenerateAiVariables", "contactCreateGenerateAiVariables", Obj(<<>>), "json"),
    F("truthy", "data", "UserId", "contactCreateUserId", Num(0), "number"),
    F("notEmpty", "data", "CountryCode", "contactCreateCountryCode", Str(""), "string"),
    F("notEmpty", "data", "TimeZone", "contactCreateTimeZone", Str(""), "string"),
    F("truthy", "data", "ListId", "contactCreateListId", Num(0), "number"),
    F("flag", "data", "CreateInCrm", "contactCreateCreateInCrm", Bool(FALSE), "boolean") >>

contactUpdateFields == <<
    F("notEmpty", "data", "FirstName", "contactUpdateFirstName", Str(""), "string"),
    F("notEmpty", "data", "LastName", "contactUpdateLastName", Str(""), "string"),
    F("notEmpty", "data", "Phone", "contactUpdatePhone", Str(""), "string"),
    F("notEmpty", "data", "MobilePhone", "contactUpdateMobilePhone", Str(""), "string"),
    F("notEmpty", "data", "Email", "contactUpdateEmail", Str(""), "string"),
    F("notEmpty", "data", "Title", "contactUpdateTitle", Str(""), "string"),
    F("notEmpty", "data", "Location", "contactUpdateLocation", Str(""), "string"),
    F("notEmpty", "data", "Linkedin", "contactUpdateLinkedin", Str(""), "string"),
    F("json", "data", "ExternalValues", "contactUpdateExternalValues", Obj(<<>>), "json"),
    F("truthy", "data", "UserId", "contactUpdateUserId", Num(0), "number"),
    F("notEmpty", "data", "CountryCode", "contactUpdateCountryCode", Str(""), "string") >>

contactImportFields == <<
    F("notEmpty", "data", "ImportType", "contactImportType", Str(""), "options"),
    F("notEmpty", "data", "FileName", "contactImportFileName", Str(""), "string"),
    F("flag", "data", "FindEmail", "contactImportFindEmail", Bool(FALSE), "boolean"),
    F("flag", "data", "FindLinkedin", "contactImportFindLinkedin", Bool(FALSE), "boolean"),
    F("flag", "data", "FindPhone", "contactImportFindPhone", Bool(FALSE), "boolean"),
    F("flag", "data", "VerifyEmail", "contactImportVerifyEmail", Bool(FALSE), "boolean"),
    F("csvInt", "data", "AiExternalPropertiesIdsToGenerate", "contactImportAiExternalPropertyIds", Str(""), "list") >>

prospectFields == <<
    F("notEmpty", "prospectData", "FirstName", "firstName", Undefined, "string"),
    F("notEmpty", "prospectData", "LastName", "lastName", Undefined, "string"),
    F("notEmpty", "prospectData", "Email", "email", Undefined, "string"),
    F("notEmpty", "prospectData", "Phone", "phone", Undefined, "string"),
    F("notEmpty", "prospectData", "MobilePhone", "mobilePhone", Undefined, "string"),
    F("notEmpty", "prospectData", "Title", "title", Undefined, "string"),
    F("notEmpty", "prospectData", "Location", "location", Undefined, "string"),
    F("notEmpty", "prospectData", "Linkedin", "linkedin", Undefined, "string"),
    F("notEmpty", "prospectData", "Company", "company", Undefined, "string"),
    F("notEmpty", "prospectData", "CompanyWebsite", "companyWebsite", Undefined, "string"),
    F("notEmpty", "prospectData", "CompanyLinkedin", "companyLinkedin", Undefined, "string"),
    F("notEmpty", "prospectData", "CompanyCountry", "companyCountry", Undefined, "string"),
    F("notEmpty", "prospectData", "CompanyIndustry", "companyIndustry", Undefined, "string"),
    F("notEmpty", "prospectData", "CompanyAnnualRevenue", "companyAnnualRevenue", Undefined, "string"),
    F("truthy", "prospectData", "CompanyNumberOfEmployees", "companyNumberOfEmployees", Undefined, "number"),
    F("propKeys", "prospectData", "ExternalValues", "externalValues", Undefined, "json"),
    F("propKeys", "prospectData", "AccountExternalValues", "accountExternalValues", Undefined, "json"),
    F("notEmpty", "prospectData", "Owner", "owner", Undefined, "string"),
    F("notEmpty", "prospectData", "SalesNavigatorUrl", "salesNavigatorUrl", Undefined, "string"),
    F("truthy", "prospectData", "ListId", "listId", Undefined, "number"),
    F("truthy", "prospectData", "StrategyId", "strategyId", Undefined, "number") >>

dealSearchFields == <<
    F("notEmpty", "searchBody", "Name", "dealSearchName", Str(""), "string"),
    F("notEmpty", "searchBody", "AccountId", "dealSearchAccountId", Str(""), "string"),
    F("notEmpty", "searchBody", "UserId", "dealSearchUserId", Str(""), "string"),
    F("notEmpty", "searchBody", "Stage", "dealSearchStage", Str(""), "string"),
    F("notEmpty", "searchBody", "Pipeline", "dealSearchPipeline", Str(""), "string"),
    F("csv", "searchBody", "ObjectIds", "dealSearchObjectIds", Str(""), "list"),
    F("notEmpty", "pagination", "Limit", "dealSearchLimit", Num(50), "number"),
    F("notEmpty", "pagination", "Offset", "dealSearchOffset", Num(0), "number"),
    F("attach", "searchBody", "Pagination", "pagination", Undefined, "object"),
    F("notEmpty", "searchBody", "CreatedDateMin", "dealSearchCreatedDateMin", Str(""), "dateTime"),
    F("notEmpty", "searchBody", "CreatedDateMax", "dealSearchCreatedDateMax", Str(""), "dateTime"),
    F("notEmpty", "searchBody", "LastModifiedDateMin", "dealSearchLastModifiedDateMin", Str(""), "dateTime"),
    F("notEmpty", "searchBody", "LastModifiedDateMax", "dealSearchLastModifiedDateMax", Str(""), "dateTime"),
    F("notEmpty", "searchBody", "CloseDateMin", "dealSearchCloseDateMin", Str(""), "dateTime"),
    F("notEmpty", "searchBody", "CloseDateMax", "dealSearchCloseDateMax", Str(""), "dateTime"),
    F("flag", "searchBody", "IsWon", "dealSearchIsWon", Bool(FALSE), "boolean"),
    F("flag", "searchBody", "IsClosed", "dealSearchIsClosed", Bool(FALSE), "boolean"),
    F("truthy", "searchBody", "AmountMin", "dealSearchAmountMin", Num(0), "number"),
    F("truthy", "searchBody", "AmountMax", "dealSearchAmountMax", Num(0), "number"),
    F("flag", "searchBody", "Active", "dealSearchActive", Bool(FALSE), "boolean"),
    F("truthy", "searchBody", "Year", "dealSearchYear", Num(0), "number"),
    F("json", "searchBody", "ExternalProperties", "dealSearchExternalProperties", Obj(<<>>), "json"),
    F("notEmpty", "searchBody", "Sort", "dealSearchSort", Str(""), "options"),
    F("flag", "includes", "WithAccount", "dealSearchIncludeAccount", Bool(FALSE), "boolean"),
    F("attach", "searchBody", "Includes", "includes", Undefined, "object") >>

dealCreateFields == <<
    F("notEmpty", "data", "AccountId", "dealCreateAccountId", Str(""), "string"),
    F("notEmpty", "data", "Name", "dealCreateName", Str(""), "string"),
    F("truthy", "data", "Amount", "dealCreateAmount", Num(0), "number"),
    F("notEmpty", "data", "Stage", "dealCreateStage", Str(""), "string"),
    F("notEmpty", "data", "Pipeline", "dealCreatePipeline", Str(""), "string"),
    F("notEmpty", "data", "CloseDate", "dealCreateCloseDate", Str(""), "dateTime"),
    F("notEmpty", "data", "Description", "dealCreateDescription", Str(""), "string"),
    F("json", "data", "ExternalValues", "dealCreateExternalValues", Obj(<<>>), "json"),
    F("truthy", "data", "UserId", "dealCreateUserId", Num(0), "number") >>

dealUpdateFields == <<
    F("notEmpty", "data", "AccountId", "dealUpdateAccountId", Str(""), "string"),
    F("notEmpty", "data", "OpportunityId", "dealUpdateOpportunityId", Str(""), "string"),
    F("notEmpty", "data", "Name", "dealUpdateName", Str(""), "string"),
    F("truthy", "data", "Amount", "dealUpdateAmount", Num(0), "number"),
    F("notEmpty", "data", "Stage", "dealUpdateStage", Str(""), "string"),
    F("notEmpty", "data", "CloseDate", "dealUpdateCloseDate", Str(""), "dateTime"),
    F("notEmpty", "data", "Description", "dealUpdateDescription", Str(""), "string"),
    F("flag", "data", "IsClosed", "dealUpdateIsClosed", Bool(FALSE), "boolean"),
    F("flag", "data", "IsWon", "dealUpdateIsWon", Bool(FALSE), "boolean"),
    F("json", "data", "ExternalValues", "dealUpdateExternalValues", Obj(<<>>), "json"),
    F("truthy", "data", "UserId", "dealUpdateUserId", Num(0), "number") >>

noteSearchFields == <<
    F("notEmpty", "searchBody", "DescriptionContains", "noteSearchDescriptionContains", Str(""), "string"),
    F("notEmpty", "searchBody", "AccountId", "noteSearchAccountId", Str(""), "string"),
    F("notEmpty", "searchBody", "OpportunityId", "noteSearchOpportunityId", Str(""), "string"),
    F("notEmpty", "searchBody", "UserId", "noteSearchUserId", Str(""), "string"),
    F("csv", "searchBody", "ObjectIds", "noteSearchObjectIds", Str(""), "list"),
    F("notEmpty", "pagination", "Limit", "noteSearchLimit", Num(50), "number"),
    F("notEmpty", "pagination", "Offset", "noteSearchOffset", Num(0), "number"),
    F("attach", "searchBody", "Pagination", "pagination", Undefined, "object"),
    F("notEmpty", "searchBody", "CreatedDateMin", "noteSearchCreatedDateMin", Str(""), "dateTime"),
    F("notEmpty", "searchBody", "CreatedDateMax", "noteSearchCreatedDateMax", Str(""), "dateTime"),
    F("notEmpty", "searchBody", "LastModifiedDateMin", "noteSearchLastModifiedDateMin", Str(""), "dateTime"),
    F("notEmpty", "searchBody", "LastModifiedDateMax", "noteSearchLastModifiedDateMax", Str(""), "dateTime"),
    F("flag", "searchBody", "Active", "noteSearchActive", Bool(FALSE), "boolean"),
    F("flag", "includes", "WithAccount", "noteSearchIncludeAccount", Bool(FALSE), "boolean"),
    F("flag", "includes", "WithOpportunity", "noteSearchIncludeOpportunity", Bool(FALSE), "boolean"),
    F("flag", "includes", "WithProspects", "noteSearchIncludeProspects", Bool(FALSE), "boolean"),
    F("attach", "searchBody", "Includes", "includes", Undefined, "object") >>

noteCreateFields == <<
    F("notEmpty", "data", "Description", "noteCreateDescription", Str(""), "string"),
    F("notEmpty", "data", "AccountId", "noteCreateAccountId", Str(""), "string"),
    F("notEmpty", "data", "OpportunityId", "noteCreateOpportunityId", Str(""), "string"),
    F("csv", "data", "ProspectIds", "noteCreateProspectIds", Str(""), "list") >>

taskSearchFields == <<
    F("always", "searchBody", "Limit", "taskSearchLimit", Num(50), "number"),
    F("always", "searchBody", "Offset", "taskSearchOffset", Num(0), "number"),
    F("notEmpty", "searchBody", "Date", "taskSearchDate", Str(""), "dateTime"),
    F("notEmpty", "searchBody", "ProspectId", "taskSearchProspectId", Str(""), "string"),
    F("notEmpty", "searchBody", "OpportunityId", "taskSearchOpportunityId", Str(""), "string"),
    F("flag", "searchBody", "Completed", "taskSearchCompleted", Bool(FALSE), "boolean"),
    F("notEmpty", "searchBody", "Type", "taskSearchType", Str(""), "options"),
    F("notEmpty", "searchBody", "Subtype", "taskSearchSubtype", Str(""), "options"),
    F("multi", "searchBody", "Types", "taskSearchTypes", Arr(<<>>), "multiOptions"),
    F("notEmpty", "searchBody", "Since", "taskSearchSince", Str(""), "dateTime"),
    F("notEmpty", "searchBody", "To", "taskSearchTo", Str(""), "dateTime"),
    F("flag", "searchBody", "Automatic", "taskSearchAutomatic", Bool(FALSE), "boolean"),
    F("flag", "searchBody", "HasAutomationError", "taskSearchHasAutomationError", Bool(FALSE), "boolean"),
    F("flag", "searchBody", "HasOpportunity", "taskSearchHasOpportunity", Bool(FALSE), "boolean"),
    F("flag", "searchBody", "FromSequence", "taskSearchFromSequence", Bool(FALSE), "boolean"),
    F("flag", "searchBody", "FromCrm", "taskSearchFromCrm", Bool(FALSE), "boolean"),
    F("notEmpty", "searchBody", "AccountId", "taskSearchAccountId", Str(""), "string"),
    F("truthy", "searchBody", "ProspectListId", "taskSearchProspectListId", Num(0), "number"),
    F("truthy", "searchBody", "LeadListId", "taskSearchLeadListId", Num(0), "number"),
    F("truthy", "searchBody", "AccountListId", "taskSearchAccountListId", Num(0), "number"),
    F("truthy", "searchBody", "StrategyId", "taskSearchStrategyId", Num(0), "number"),
    F("notEmpty", "searchBody", "SortBy", "taskSearchSortBy", Str(""), "options"),
    F("json", "searchBody", "AccountExternalProperties", "taskSearchAccountExternalProperties", Obj(<<>>), "json"),
    F("json", "searchBody", "ProspectExternalProperties", "taskSearchProspectExternalProperties", Obj(<<>>), "json"),
    F("json", "searchBody", "LeadExternalProperties", "taskSearchLeadExternalProperties", Obj(<<>>), "json") >>

taskCreateFields == <<
    F("notEmpty", "data", "AccountId", "taskCreateAccountId", Str(""), "string"),
    F("notEmpty", "data", "ProspectId", "taskCreateProspectId", Str(""), "string"),
    F("notEmpty", "data", "Type", "taskCreateType", Str(""), "options"),
    F("notEmpty", "data", "Subtype", "taskCreateSubtype", Str(""), "options"),
    F("notEmpty", "data", "ActivityDate", "taskCreateActivityDate", Str(""), "dateTime"),
    F("truthy", "data", "TemplateId", "taskCreateTemplateId", Num(0), "number"),
    F("flag", "data", "Automatic", "taskCreateAutomatic", Bool(FALSE), "boolean"),
    F("notEmpty", "data", "OpportunityId", "taskCreateOpportunityId", Str(""), "string"),
    F("notEmpty", "data", "Subject", "taskCreateSubject", Str(""), "string"),
    F("notEmpty", "data", "Description", "taskCreateDescription", Str(""), "string"),
    F("notEmpty", "data", "PersonalizedSubject", "taskCreatePersonalizedSubject", Str(""), "string"),
    F("notEmpty", "data", "PersonalizedContent", "taskCreatePersonalizedContent", Str(""), "string") >>

activitySearchFields == <<
    F("notEmpty", "searchBody", "Subject", "activitySearchSubject", Str(""), "string"),
    F("notEmpty", "searchBody", "AccountId", "activitySearchAccountId", Str(""), "string"),
    F("notEmpty", "searchBody", "ProspectId", "activitySearchProspectId", Str(""), "string"),
    F("notEmpty", "searchBody", "OpportunityId", "activitySearchOpportunityId", Str(""), "string"),
    F("notEmpty", "searchBody", "UserId", "activitySearchUserId", Str(""), "string"),
    F("notEmpty", "searchBody", "ObjectId", "activitySearchObjectId", Str(""), "string"),
    F("notEmpty", "pagination", "Limit", "activitySearchLimit", Num(50), "number"),
    F("notEmpty", "pagination", "Offset", "activitySearchOffset", Num(0), "number"),
    F("attach", "searchBody", "Pagination", "pagination", Undefined, "object"),
    F("notEmpty", "searchBody", "CreatedDateMin", "activitySearchCreatedDateMin", Str(""), "dateTime"),
    F("notEmpty", "searchBody", "CreatedDateMax", "activitySearchCreatedDateMax", Str(""), "dateTime"),
    F("notEmpty", "searchBody", "LastModifiedDateMin", "activitySearchLastModifiedDateMin", Str(""), "dateTime"),
    F("notEmpty", "searchBody", "LastModifiedDateMax", "activitySearchLastModifiedDateMax", Str(""), "dateTime"),
    F("notEmpty", "searchBody", "ActivityDateMin", "activitySearchActivityDateMin", Str(""), "dateTime"),
    F("notEmpty", "searchBody", "ActivityDateMax", "activitySearchActivityDateMax", Str(""), "dateTime"),
    F("notEmpty", "searchBody", "FirstAnswerDatetimeMin", "activitySearchFirstAnswerDatetimeMin", Str(""), "dateTime"),
    F("notEmpty", "searchBody", "FirstAnswerDatetimeMax", "activitySearchFirstAnswerDatetimeMax", Str(""), "dateTime"),
    F("notEmpty", "searchBody", "FirstTrackDatetimeMin", "activitySearchFirstTrackDatetimeMin", Str(""), "dateTime"),
    F("notEmpty", "searchBody", "FirstTrackDatetimeMax", "activitySearchFirstTrackDatetimeMax", Str(""), "dateTime"),
    F("notEmpty", "searchBody", "TaskSubtype", "activitySearchTaskSubtype", Str(""), "options"),
    F("truthy", "searchBody", "CronoObjectId", "activitySearchCronoObjectId", Num(0), "number"),
    F("flag", "includes", "WithAccount", "activitySearchIncludeAccount", Bool(FALSE), "boolean"),
    F("flag", "includes", "WithProspect", "activitySearchIncludeProspect", Bool(FALSE), "boolean"),
    F("flag", "includes", "WithEmailLog", "activitySearchIncludeEmailLog", Bool(FALSE), "boolean"),
    F("flag", "includes", "WithCallLog", "activitySearchIncludeCallLog", Bool(FALSE), "boolean"),
    F("flag", "includes", "WithLinkedinLog", "activitySearchIncludeLinkedinLog", Bool(FALSE), "boolean"),
    F("flag", "includes", "WithOpportunity", "activitySearchIncludeOpportunity", Bool(FALSE), "boolean"),
    F("attach", "searchBody", "Include", "includes", Undefined, "object") >>

listSearchFields == <<
    F("notEmpty", "searchBody", "Name", "listSearchName", Str(""), "string"),
    F("notEmpty", "searchBody", "AccountId", "listSearchAccountId", Str(""), "string"),
    F("notEmpty", "searchBody", "ProspectId", "listSearchProspectId", Str(""), "string"),
    F("truthy", "searchBody", "StrategyId", "listSearchStrategyId", Num(0), "number"),
    F("truthy", "searchBody", "TemplateId", "listSearchTemplateId", Num(0), "number"),
    F("notEmpty", "pagination", "Limit", "listSearchLimit", Num(50), "number"),
    F("notEmpty", "pagination", "Offset", "listSearchOffset", Num(0), "number"),
    F("attach", "searchBody", "Pagination", "pagination", Undefined, "object"),
    F("notEmpty", "searchBody", "Type", "listSearchType", Str("Account"), "options"),
    F("notEmpty", "searchBody", "SortType", "listSearchSortType", Str(""), "options") >>

strategyDetailsFields == <<
    F("always", "searchBody", "StrategyId", "strategyDetailsStrategyId", Num(0), "number"),
    F("notEmpty", "searchBody", "Text", "strategyDetailsText", Str(""), "string"),
    F("notEmpty", "pagination", "Limit", "strategyDetailsLimit", Num(50), "number"),
    F("notEmpty", "pagination", "Offset", "strategyDetailsOffset", Num(0), "number"),
    F("attach", "searchBody", "Pagination", "pagination", Undefined, "object"),
    F("notEmpty", "searchBody", "Sort", "strategyDetailsSort", Str("ContactsAsc"), "options"),
    F("notEmpty", "searchBody", "Status", "strategyDetailsStatus", Str(""), "options"),
    F("multi", "searchBody", "OnlySpecificTask", "strategyDetailsOnlySpecificTask", Arr(<<>>), "multiOptions"),
    F("flag", "searchBody", "OnlyMySequences", "strategyDetailsOnlyMySequences", Bool(FALSE), "boolean"),
    F("flag", "searchBody", "OnlyMyProspects", "strategyDetailsOnlyMyProspects", Bool(FALSE), "boolean") >>

strategySearchFields == <<
    F("notEmpty", "searchBody", "Name", "strategySearchName", Str(""), "string"),
    F("notEmpty", "searchBody", "AccountId", "strategySearchAccountId", Str(""), "string"),
    F("notEmpty", "searchBody", "ProspectId", "strategySearchProspectId", Str(""), "string"),
    F("notEmpty", "searchBody", "UserId", "strategySearchUserId", Str(""), "string"),
    F("csv", "searchBody", "Ids", "strategySearchIds", Str(""), "list"),
    F("notEmpty", "pagination", "Limit", "strategySearchLimit", Num(50), "number"),
    F("notEmpty", "pagination", "Offset", "strategySearchOffset", Num(0), "number"),
    F("attach", "searchBody", "Pagination", "pagination", Undefined, "object"),
    F("notEmpty", "searchBody", "Sort", "strategySearchSort", Str(""), "options"),
    F("json", "searchBody", "StrategyTags", "strategySearchTags", Obj(<<>>), "json"),
    F("flag", "includeOptions", "WithActiveSequenceInstances", "strategySearchIncludeActiveSequenceInstances", Bool(FALSE), "boolean"),
    F("flag", "includeOptions", "WithAnalytics", "strategySearchIncludeAnalytics", Bool(FALSE), "boolean"),
    F("flag", "includeOptions", "WithSequence", "strategySearchIncludeSequence", Bool(FALSE), "boolean"),
    F("flag", "includeOptions", "WithUsers", "strategySearchIncludeUsers", Bool(FALSE), "boolean"),
    F("attach", "searchBody", "IncludeOptions", "includeOptions", Undefined, "object") >>

externalPropertySearchFields == <<
    F("notEmpty", "searchBody", "TableType", "externalPropertySearchTableType", Str(""), "options"),
    F("flag", "searchBody", "OnlyInsert", "externalPropertySearchOnlyInsert", Bool(FALSE), "boolean"),
    F("flag", "searchBody", "OnlyTag", "externalPropertySearchOnlyTag", Bool(FALSE), "boolean"),
    F("flag", "searchBody", "WithLead", "externalPropertySearchWithLead", Bool(FALSE), "boolean"),
    F("flag", "searchBody", "IsImported", "externalPropertySearchIsImported", Bool(FALSE), "boolean"),
    F("flag", "searchBody", "IsStatus", "externalPropertySearchIsStatus", Bool(FALSE), "boolean"),
    F("flag", "searchBody", "IsFilter", "externalPropertySearchIsFilter", Bool(FALSE), "boolean"),
    F("flag", "searchBody", "OnlyAiVariables", "externalPropertySearchOnlyAiVariables", Bool(FALSE), "boolean") >>

userSearchFields == <<
    F("notEmpty", "searchBody", "Email", "userSearchEmail", Str(""), "string"),
    F("flag", "searchBody", "Active", "userSearchActive", Bool(FALSE), "boolean"),
    F("notEmpty", "pagination", "Limit", "userSearchLimit", Num(50), "number"),
    F("notEmpty", "pagination", "Offset", "userSearchOffset", Num(0), "number"),
    F("attach", "searchBody", "Pagination", "pagination", Undefined, "object") >>

\* ------------------------------------------------- the structured bodies
\* if (value) { target[key] = value; }
setIfTruthyMut(target, key, value) == SetKey(target, key, value)
setIfTruthy(target, key, value) ==
    IF Truthy(value) THEN SetKey(target, key, value) ELSE target

\* if (value) { target[key] = true; }
setTrueIfTruthyMut(target, key, value) == SetKey(target, key, value)
setTrueIfTruthy(target, key, value) ==
    IF Truthy(value) THEN SetKey(target, key, Bool(TRUE)) ELSE target

\* One statement of a structured block: objs maps the name of each local
\* object of the block (searchBody, data, includes, pagination, ...) to its
\* current value; src is the parameter bag the statement reads.
ApplyField(objs, f, src, idx) ==
    LET to(target) == Ok([objs EXCEPT ![f.tgt] = target])
        set(v) == to(SetKey(objs[f.tgt], f.key, v))
        setParsed(parsed) ==
            IF ~parsed.ok THEN parsed
            ELSE IF ObjectKeysLength(parsed.val) > 0 THEN set(parsed.val) ELSE Ok(objs)
        setList(list, mapped) == IF Len(list) > 0 THEN set(Arr(mapped)) ELSE Ok(objs)
        apply(target, value) ==
            CASE f.kind = "notEmpty" -> to(addIfNotEmpty(target, f.key, value))
              [] f.kind = "truthy" -> to(setIfTruthy(target, f.key, value))
              [] f.kind = "flag" -> to(setTrueIfTruthy(target, f.key, value))
              [] f.kind = "always" -> set(value)
              [] f.kind = "multi" ->
                    IF ObjectKeysLength(value) > 0 THEN set(value) ELSE Ok(objs)
              [] f.kind = "json" -> setParsed(getJsonParameter(src, f.param, idx, f.def))
              [] f.kind = "csv" -> setList(parseCsv(value), parseCsv(value))
              [] f.kind = "csvInt" -> setList(parseCsv(value), parseCsvInts(value))
              [] f.kind = "propKeys" ->
                    IF Truthy(value) /\ ObjectKeysLength(value) > 0
                    THEN set(value) ELSE Ok(objs)
              [] f.kind = "attach" ->
                    IF Cardinality(DOMAIN objs[f.param]) > 0
                    THEN set(Obj(objs[f.param])) ELSE Ok(objs)
    IN apply(objs[f.tgt], getNodeParameter(src, f.param, f.def))

\* The statements of a block in order; the first error ends the block.
RECURSIVE ApplyFields(_, _, _, _)
ApplyFields(objs, fields, src, idx) ==
    IF fields = <<>> THEN Ok(objs)
    ELSE LET then(r) == IF r.ok THEN ApplyFields(r.val, Tail(fields), src, idx) ELSE r
         IN then(ApplyField(objs, Head(fields), src, idx))

Locals == {"searchBody", "data", "includes", "pagination", "includeOptions",
           "accountData", "prospectData"}
NoLocals == [t \in Locals |-> EmptyObject]

RECURSIVE MapGroupsMut(_, _, _, _)
MapGroupsMut(groups, fields, local, idx) ==
    IF groups = <<>> THEN <<>>
    ELSE LET with(group) == IF group = EmptyObject THEN <<>> ELSE <<Obj(group)>>
         IN with(ApplyFields(NoLocals, fields, Head(groups).obj, idx).val[local])
            \o MapGroupsMut(Tail(groups), fields, local, idx)
\* The groups of an import collection: (value[prop] ?? []).map(group => ...)
RECURSIVE MapGroups(_, _, _, _)
MapGroups(groups, fields, local, idx) ==
    IF groups = <<>> THEN <<>>
    ELSE <<Obj(ApplyFields(NoLocals, fields, Head(groups).obj, idx).val[local])>>
         \o MapGroups(Tail(groups), fields, local, idx)

\* Object.assign(local, additional) once the block of the local has run.
MergedMut(r, local, additional) ==
    IF ~r.ok THEN r ELSE Ok(Obj(Assign(additional, r.val[local])))
Merged(r, local, additional) ==
    IF ~r.ok THEN r ELSE Ok(Obj(Assign(r.val[local], additional)))

\* A structured search body: the fields, then the additional fields on top.
StructuredSearch(item, fields, idx) ==
    Merged(ApplyFields(NoLocals, fields, item, idx), "searchBody",
           getAdditionalFields(item, "searchAdditionalFields"))

\* The search body of a search operation.
SearchBodyMut(item, fields, idx, useRawJsonSearch) ==
    IF useRawJsonSearch \/ Truthy(getNodeParameter(item, "useRawJsonData", Bool(FALSE)))
    THEN getJsonParameter(item, "search", idx, Obj(EmptyObject))
    ELSE StructuredSearch(item, fields, idx)
SearchBody(item, fields, idx, useRawJsonSearch) ==
    IF useRawJsonSearch
    THEN getJsonParameter(item, "search", idx, Obj(EmptyObject))
    ELSE StructuredSearch(item, fields, idx)

\* The data object of create / update: raw, or the fields and then the
\* additional fields on top.
DataObjectMut(item, fields, idx, useRawJsonData) ==
    Merged(ApplyFields(NoLocals, fields, item, idx), "data",
           getAdditionalFields(item, "dataAdditionalFields"))
DataObject(item, fields, idx, useRawJsonData) ==
    IF useRawJsonData
    THEN getJsonParameter(item, "data", idx, Obj(EmptyObject))
    ELSE Merged(ApplyFields(NoLocals, fields, item, idx), "data",
                getAdditionalFields(item, "dataAdditionalFields"))

\* The data object of import: raw, or the collection of groups, then the
\* fields, then the additional fields on top.
ImportDataObject(item, collectionParam, prop, key, groupFields, local, fields, idx, useRawJsonData) ==
    IF useRawJsonData
    THEN getJsonParameter(item, "data", idx, Obj(EmptyObject))
    ELSE LET orEmpty(declared) ==
                IF declared = Undefined \/ declared = Null THEN <<>> ELSE declared.arr
             data0(groups) ==
                IF Len(groups) > 0 THEN SetKey(EmptyObject, key, Arr(groups))
                ELSE EmptyObject
             mapped(collection) ==
                MapGroups(orEmpty(getNodeParameter(collection.obj, prop, Undefined)),
                          groupFields, local, idx)
         IN Merged(ApplyFields([NoLocals EXCEPT !["data"] =
                                   data0(mapped(getNodeParameter(item, collectionParam,
                                                                 Obj(EmptyObject))))],
                               fields, item, idx),
                   "data", getAdditionalFields(item, "dataAdditionalFields"))

\* ------------------------------------------------------------ the dispatch
\* What cronoApiRequest is called with.
Req(method, endpoint, qs, body) ==
    Ok([method |-> method, endpoint |-> endpoint, qs |-> qs, body |-> body])

GetOperationMut(item, idx, endpoint) ==
    LET with(objectId, includeOptions) ==
            IF ~includeOptions.ok THEN includeOptions
            ELSE Req("GET", endpoint \o "/" \o Template(objectId), Obj(EmptyObject),
                     Obj(getAdditionalFields(item, "dataAdditionalFields")))
    IN with(getNodeParameter(item, "objectId", Undefined),
            getJsonParameter(item, "includeOptions", idx, Obj(EmptyObject)))
\* operation === 'get' of company, contact, deal, note, activity
GetOperation(item, idx, endpoint) ==
    LET with(objectId, includeOptions) ==
            IF ~includeOptions.ok THEN includeOptions
            ELSE Req("GET", endpoint \o "/" \o Template(objectId), includeOptions.val, Undefined)
    IN with(getNodeParameter(item, "objectId", Undefined),
            getJsonParameter(item, "includeOptions", idx, Obj(EmptyObject)))

GetAllOperationMut(item, idx, endpoint, qs) ==
    LET with(includeOptions) ==
            IF ~includeOptions.ok THEN includeOptions
            ELSE Req("GET", endpoint, Obj(Assign(Spread(includeOptions.val), Spread(qs))),
                     Undefined)
    IN with(getJsonParameter(item, "includeOptions", idx, Obj(EmptyObject)))
\* operation === 'getAll' of company, contact, deal, note, activity
GetAllOperation(item, idx, endpoint, qs) ==
    LET with(includeOptions) ==
            IF ~includeOptions.ok THEN includeOptions
            ELSE Req("GET", endpoint, Obj(Assign(Spread(qs), Spread(includeOptions.val))),
                     Undefined)
    IN with(getJsonParameter(item, "includeOptions", idx, Obj(EmptyObject)))

\* operation === 'search'
SearchOperation(item, idx, endpoint, fields, qs, useRawJsonSearch) ==
    LET with(body) == IF ~body.ok THEN body ELSE Req("POST", endpoint, qs, body.val)
    IN with(SearchBody(item, fields, idx, useRawJsonSearch))

\* body = { data }
DataBody(data) == Obj(SetKey(EmptyObject, "data", data))

CreateWithScrapeOptionsMut(item, idx, endpoint, fields, qs, useRawJsonData) ==
    LET with(data, scrapeOptions) ==
            IF ~data.ok THEN data
            ELSE IF ~scrapeOptions.ok THEN scrapeOptions
            ELSE Req("POST", endpoint, qs,
                     Obj(SetKey(DataBody(data.val).obj, "scrapeOptions", scrapeOptions.val)))
    IN with(DataObject(item, fields, idx, useRawJsonData),
            getJsonParameter(item, "scrapeOptions", idx, Obj(EmptyObject)))
\* operation === 'create' of company and contact: data and scrapeOptions
CreateWithScrapeOptions(item, idx, endpoint, fields, qs, useRawJsonData) ==
    LET with(data, scrapeOptions) ==
            IF ~data.ok THEN data
            ELSE IF ~scrapeOptions.ok THEN scrapeOptions
            ELSE Req("POST", endpoint, qs,
                     IF ObjectKeysLength(scrapeOptions.val) > 0
                     THEN Obj(SetKey(DataBody(data.val).obj, "scrapeOptions", scrapeOptions.val))
                     ELSE DataBody(data.val))
    IN with(DataObject(item, fields, idx, useRawJsonData),
            getJsonParameter(item, "scrapeOptions", idx, Obj(EmptyObject)))

\* operation === 'create' (POST) and 'update' (PATCH) with body = { data }
DataOperation(method, item, idx, endpoint, fields, qs, useRawJsonData) ==
    LET with(data) == IF ~data.ok THEN data ELSE Req(method, endpoint, qs, DataBody(data.val))
    IN with(DataObject(item, fields, idx, useRawJsonData))

\* operation === 'import'
ImportOperation(item, idx, endpoint, collectionParam, prop, key, groupFields, local, fields, qs, useRawJsonData) ==
    LET with(data) ==
            IF ~data.ok THEN data
            ELSE Req("POST", endpoint \o "/import", qs, DataBody(data.val))
    IN with(ImportDataObject(item, collectionParam, prop, key, groupFields, local,
                             fields, idx, useRawJsonData))

FallThroughMut(endpoint, qs) ==
    Fail([kind |-> "NodeOperationError", message |-> "Unsupported operation", itemIndex |-> 0])
\* No branch of the case matches the operation: method, qs and body keep
\* their initial values.
FallThrough(endpoint, qs) == Req("GET", endpoint, qs, Undefined)

companyCase(item, idx, operation, basePath, qs, useRawJsonData, useRawJsonSearch) ==
    LET endpoint == basePath \o "/Accounts" IN
    CASE operation = Str("get") -> GetOperation(item, idx, endpoint)
      [] operation = Str("getAll") -> GetAllOperation(item, idx, endpoint, qs)
      [] operation = Str("search") ->
            SearchOperation(item, idx, endpoint \o "/search", companySearchFields, qs, useRawJsonSearch)
      [] operation = Str("create") ->
            CreateWithScrapeOptions(item, idx, endpoint, companyCreateFields, qs, useRawJsonData)
      [] operation = Str("update") ->
            DataOperation("PATCH", item, idx, endpoint, companyUpdateFields, qs, useRawJsonData)
      [] operation = Str("import") ->
            ImportOperation(item, idx, endpoint, "companyImportAccounts", "account", "Accounts",
                            accountFields, "accountData", companyImportFields, qs, useRawJsonData)
      [] OTHER -> FallThrough(endpoint, qs)

contactCase(item, idx, operation, basePath, qs, useRawJsonData, useRawJsonSearch) ==
    LET endpoint == basePath \o "/Prospects" IN
    CASE operation = Str("get") -> GetOperation(item, idx, endpoint)
      [] operation = Str("getAll") -> GetAllOperation(item, idx, endpoint, qs)
      [] operation = Str("search") ->
            SearchOperation(item, idx, endpoint \o "/search", contactSearchFields, qs, useRawJsonSearch)
      [] operation = Str("create") ->
            CreateWithScrapeOptions(item, idx, endpoint, contactCreateFields, qs, useRawJsonData)
      [] operation = Str("update") ->
            DataOperation("PATCH", item, idx, endpoint, contactUpdateFields, qs, useRawJsonData)
      [] operation = Str("import") ->
            ImportOperation(item, idx, endpoint, "contactImportProspects", "prospect", "Prospects",
                            prospectFields, "prospectData", contactImportFields, qs, useRawJsonData)
      [] OTHER -> FallThrough(endpoint, qs)

dealCase(item, idx, operation, basePath, qs, useRawJsonData, useRawJsonSearch) ==
    LET endpoint == basePath \o "/Opportunities" IN
    CASE operation = Str("get") -> GetOperation(item, idx, endpoint)
      [] operation = Str("getAll") -> GetAllOperation(item, idx, endpoint, qs)
      [] operation = Str("search") ->
            SearchOperation(item, idx, endpoint \o "/search", dealSearchFields, qs, useRawJsonSearch)
      [] operation = Str("create") ->
            DataOperation("POST", item, idx, endpoint, dealCreateFields, qs, useRawJsonData)
      [] operation = Str("update") ->
            DataOperation("PATCH", item, idx, endpoint, dealUpdateFields, qs, useRawJsonData)
      [] OTHER -> FallThrough(endpoint, qs)

noteCase(item, idx, operation, basePath, qs, useRawJsonData, useRawJsonSearch) ==
    LET endpoint == basePath \o "/Notes" IN
    CASE operation = Str("get") -> GetOperation(item, idx, endpoint)
      [] operation = Str("getAll") -> GetAllOperation(item, idx, endpoint, qs)
      [] operation = Str("search") ->
            SearchOperation(item, idx, endpoint \o "/search", noteSearchFields, qs, useRawJsonSearch)
      [] operation = Str("create") ->
            DataOperation("POST", item, idx, endpoint, noteCreateFields, qs, useRawJsonData)
      [] OTHER -> FallThrough(endpoint, qs)

taskCaseMut(item, idx, operation, basePath, qs, useRawJsonData, useRawJsonSearch) ==
    LET endpoint == basePath \o "/Tasks" IN
    CASE operation = Str("search") ->
            SearchOperation(item, idx, endpoint \o "/search", taskSearchFields,
                            IF useRawJsonSearch THEN qs
                            ELSE Obj(SetKey(EmptyObject, "withOpportunities",
                                            getNodeParameter(item, "withOpportunities", Bool(FALSE)))),
                            useRawJsonSearch)
      [] operation = Str("create") ->
            DataOperation("POST", item, idx, endpoint, taskCreateFields, qs, useRawJsonData)
      [] OTHER -> FallThrough(endpoint, qs)
taskCase(item, idx, operation, basePath, qs, useRawJsonData, useRawJsonSearch) ==
    LET endpoint == basePath \o "/Tasks" IN
    CASE operation = Str("search") ->
            LET query(withOpportunities) ==
                    IF Truthy(withOpportunities)
                    THEN Obj(SetKey(EmptyObject, "withOpportunities", withOpportunities))
                    ELSE Obj(EmptyObject)
            IN SearchOperation(item, idx, endpoint \o "/search", taskSearchFields,
                               query(getNodeParameter(item, "withOpportunities", Bool(FALSE))),
                               useRawJsonSearch)
      [] operation = Str("create") ->
            DataOperation("POST", item, idx, endpoint, taskCreateFields, qs, useRawJsonData)
      [] OTHER -> FallThrough(endpoint, qs)

activityCase(item, idx, operation, basePath, qs, useRawJsonSearch) ==
    LET endpoint == basePath \o "/Activities" IN
    CASE operation = Str("get") -> GetOperation(item, idx, endpoint)
      [] operation = Str("getAll") -> GetAllOperation(item, idx, endpoint, qs)
      [] operation = Str("search") ->
            SearchOperation(item, idx, endpoint \o "/search", activitySearchFields, qs, useRawJsonSearch)
      [] OTHER -> FallThrough(endpoint, qs)

listCase(item, idx, basePath, qs, useRawJsonSearch) ==
    SearchOperation(item, idx, basePath \o "/CronoLists/search", listSearchFields, qs, useRawJsonSearch)

pipelineCase(basePath, qs) == Req("GET", basePath \o "/Pipelines", qs, Undefined)

strategyCaseMut(item, idx, operation, basePath, qs, useRawJsonSearch) ==
    SearchOperation(item, idx, basePath \o "/Strategies/search",
                    IF operation = Str("searchDetails")
                    THEN strategyDetailsFields ELSE strategySearchFields,
                    qs, useRawJsonSearch)
strategyCase(item, idx, operation, basePath, qs, useRawJsonSearch) ==
    LET endpoint == basePath \o "/Strategies/"
                    \o (IF operation = Str("searchDetails") THEN "details" ELSE "search")
    IN SearchOperation(item, idx, endpoint,
                       IF operation = Str("searchDetails")
                       THEN strategyDetailsFields ELSE strategySearchFields,
                       qs, useRawJsonSearch)

externalPropertyCaseMut(item, idx, basePath, qs, useRawJsonSearch) ==
    IF getNodeParameter(item, "operation", Undefined) = Str("search")
    THEN SearchOperation(item, idx, basePath \o "/ExternalProperties/search",
                         externalPropertySearchFields, qs, useRawJsonSearch)
    ELSE FallThrough(basePath \o "/ExternalProperties", qs)
externalPropertyCase(item, idx, basePath, qs, useRawJsonSearch) ==
    SearchOperation(item, idx, basePath \o "/ExternalProperties/search",
                    externalPropertySearchFields, qs, useRawJsonSearch)

userCase(item, idx, operation, basePath, qs, useRawJsonSearch) ==
    LET endpoint == basePath \o "/Users" IN
    CASE operation = Str("get") ->
            Req("GET", endpoint \o "/" \o Template(getNodeParameter(item, "userId", Undefined)),
                qs, Undefined)
      [] operation = Str("getAll") -> Req("GET", endpoint, qs, Undefined)
      [] operation = Str("search") ->
            SearchOperation(item, idx, endpoint \o "/search", userSearchFields, qs, useRawJsonSearch)
      [] OTHER -> FallThrough(endpoint, qs)

importCaseMut(item, operation, basePath, qs) ==
    LET endpoint == basePath \o "/Import" IN
    CASE operation = Str("get") ->
            Req("GET", endpoint \o "/" \o Template(getNodeParameter(item, "importId", Undefined)),
                qs, Undefined)
      [] operation = Str("getAll") ->
            Req("GET", endpoint,
                Obj(SetKey(SetKey(qs.obj, "type", getNodeParameter(item, "importType", Undefined)),
                           "statusType", getNodeParameter(item, "importStatus", Undefined))),
                Undefined)
      [] OTHER -> FallThrough(endpoint, qs)
importCase(item, operation, basePath, qs) ==
    LET endpoint == basePath \o "/Import" IN
    CASE operation = Str("get") ->
            Req("GET", endpoint \o "/" \o Template(getNodeParameter(item, "importId", Undefined)),
                qs, Undefined)
      [] operation = Str("getAll") ->
            LET importType == getNodeParameter(item, "importType", Undefined)
                importStatus == getNodeParameter(item, "importStatus", Undefined)
                qs1 == IF Truthy(importType) THEN SetKey(qs.obj, "type", importType) ELSE qs.obj
                qs2 == IF Truthy(importStatus) THEN SetKey(qs1, "statusType", importStatus) ELSE qs1
            IN Req("GET", endpoint, Obj(qs2), Undefined)
      [] OTHER -> FallThrough(endpoint, qs)

\* The body of the for loop of execute up to the call of cronoApiRequest:
\* the arguments of the call, or the error thrown while building them.
BuildRequest(item, idx) ==
    LET resource == getNodeParameter(item, "resource", Undefined)
        operation == getNodeParameter(item, "operation", Undefined)
        apiVersion == getNodeParameter(item, "apiVersion", Str("1"))
        basePath == "/api/v" \o Template(apiVersion)
        useRawJsonData == Truthy(getNodeParameter(item, "useRawJsonData", Bool(FALSE)))
        useRawJsonSearch == Truthy(getNodeParameter(item, "useRawJsonSearch", Bool(FALSE)))
        qs == IF operation = Str("getAll")
              THEN Obj([k \in {"limit", "offset"} |->
                         IF k = "limit" THEN getNodeParameter(item, "limit", Num(50))
                         ELSE getNodeParameter(item, "offset", Num(0))])
              ELSE Obj(EmptyObject)
    IN CASE resource = Str("company") ->
                companyCase(item, idx, operation, basePath, qs, useRawJsonData, useRawJsonSearch)
         [] resource = Str("contact") ->
                contactCase(item, idx, operation, basePath, qs, useRawJsonData, useRawJsonSearch)
         [] resource = Str("deal") ->
                dealCase(item, idx, operation, basePath, qs, useRawJsonData, useRawJsonSearch)
         [] resource = Str("note") ->
                noteCase(item, idx, operation, basePath, qs, useRawJsonData, useRawJsonSearch)
         [] resource = Str("task") ->
                taskCase(item, idx, operation, basePath, qs, useRawJsonData, useRawJsonSearch)
         [] resource = Str("activity") ->
                activityCase(item, idx, operation, basePath, qs, useRawJsonSearch)
         [] resource = Str("list") -> listCase(item, idx, basePath, qs, useRawJsonSearch)
         [] resource = Str("pipeline") -> pipelineCase(basePath, qs)
         [] resource = Str("strategy") ->
                strategyCase(item, idx, operation, basePath, qs, useRawJsonSearch)
         [] resource = Str("externalProperty") ->
                externalPropertyCase(item, idx, basePath, qs, useRawJsonSearch)
         [] resource = Str("user") -> userCase(item, idx, operation, basePath, qs, useRawJsonSearch)
         [] resource = Str("import") -> importCase(item, operation, basePath, qs)
         [] OTHER -> Fail(UnsupportedResourceError(resource, idx))

\* ------------------------------------------------------- cronoApiRequest
DefaultBaseUrl == "https://ext.crono.one"

cronoApiRequestMut(creds, method, endpoint, qs, body) ==
    LET baseUrl == IF Truthy(getNodeParameter(creds, "baseUrl", Undefined))
                   THEN creds["baseUrl"].str ELSE DefaultBaseUrl
        options == [k \in {"method", "url", "json"} |->
                      CASE k = "method" -> Str(method)
                        [] k = "url" -> Str(baseUrl \o endpoint)
                        [] OTHER -> Bool(TRUE)]
        withQs == IF Truthy(qs) THEN SetKey(options, "qs", qs) ELSE options
    IN IF Truthy(body) THEN SetKey(withQs, "body", body) ELSE withQs
\* The options handed to httpRequestWithAuthentication.
cronoApiRequest(creds, method, endpoint, qs, body) ==
    LET baseUrl == IF Truthy(getNodeParameter(creds, "baseUrl", Undefined))
                   THEN creds["baseUrl"].str ELSE DefaultBaseUrl
        options == [k \in {"method", "url", "json"} |->
                      CASE k = "method" -> Str(method)
                        [] k = "url" -> Str(baseUrl \o endpoint)
                        [] OTHER -> Bool(TRUE)]
        withQs == IF Truthy(qs) /\ ObjectKeysLength(qs) > 0
                  THEN SetKey(options, "qs", qs) ELSE options
    IN IF Truthy(body) /\ ObjectKeysLength(body) > 0
       THEN SetKey(withQs, "body", body) ELSE withQs

\* -------------------------------------------------------------- the inputs
Resources == {"company", "contact", "deal", "note", "task", "activity", "list",
              "pipeline", "strategy", "externalProperty", "user", "import"}
Operations == {"create", "get", "getAll", "search", "searchDetails", "update", "import"}

\* The operations the node offers for each resource (the options of the
\* Operation parameter shown for that resource).
OfferedOperations(resource) ==
    CASE resource \in {"company", "contact"} ->
            {"create", "get", "getAll", "import", "search", "update"}
      [] resource = "deal" -> {"create", "get", "getAll", "search", "update"}
      [] resource = "note" -> {"create", "get", "getAll", "search"}
      [] resource = "task" -> {"create", "search"}
      [] resource \in {"activity", "user"} -> {"get", "getAll", "search"}
      [] resource \in {"list", "externalProperty"} -> {"search"}
      [] resource = "pipeline" -> {"getAll"}
      [] resource = "strategy" -> {"search", "searchDetails"}
      [] resource = "import" -> {"get", "getAll"}
      [] OTHER -> {}

\* The field table of the structured body of an operation, if it has one.
FieldsOf(resource, operation) ==
    CASE resource = "company" /\ operation = "search" -> companySearchFields
      [] resource = "company" /\ operation = "create" -> companyCreateFields
      [] resource = "company" /\ operation = "update" -> companyUpdateFields
      [] resource = "company" /\ operation = "import" -> companyImportFields
      [] resource = "contact" /\ operation = "search" -> contactSearchFields
      [] resource = "contact" /\ operation = "create" -> contactCreateFields
      [] resource = "contact" /\ operation = "update" -> contactUpdateFields
      [] resource = "contact" /\ operation = "import" -> contactImportFields
      [] resource = "deal" /\ operation = "search" -> dealSearchFields
      [] resource = "deal" /\ operation = "create" -> dealCreateFields
      [] resource = "deal" /\ operation = "update" -> dealUpdateFields
      [] resource = "note" /\ operation = "search" -> noteSearchFields
      [] resource = "note" /\ operation = "create" -> noteCreateFields
      [] resource = "task" /\ operation = "search" -> taskSearchFields
      [] resource = "task" /\ operation = "create" -> taskCreateFields
      [] resource = "activity" /\ operation = "search" -> activitySearchFields
      [] resource = "list" /\ operation = "search" -> listSearchFields
      [] resource = "strategy" /\ operation = "searchDetails" -> strategyDetailsFields
      [] resource = "strategy" /\ operation = "search" -> strategySearchFields
      [] resource = "externalProperty" /\ operation = "search" -> externalPropertySearchFields
      [] resource = "user" /\ operation = "search" -> userSearchFields
      [] OTHER -> <<>>

Bag1(k, v) == [x \in {k} |-> v]

\* resource and operation of an item
Base(resource, operation) ==
    [x \in {"resource", "operation"} |-> IF x = "resource" THEN Str(resource) ELSE Str(operation)]

\* The identifiers and raw JSON texts an item carries besides its fields.
Common ==
    [x \in {"objectId", "userId", "importId", "search", "data"} |->
        CASE x = "objectId" -> Str("123")
          [] x = "userId" -> Str("u1")
          [] x = "importId" -> Num(7)
          [] x = "search" -> Str("{\"Name\":\"raw\"}")
          [] OTHER -> Str("{\"k\":1}")]

Masks == {"none", "all", "odd", "even"}
On(mask, j) ==
    CASE mask = "all" -> TRUE
      [] mask = "odd" -> j % 2 = 1
      [] mask = "even" -> j % 2 = 0
      [] OTHER -> FALSE

\* The input of the field at position j of a table: set or left empty as the
\* mask of its type says.  A set text field holds the name of its own
\* parameter, so that every field has a value of its own.
InputOf(f, j, sMask, bMask, nMask, n) ==
    CASE f.type = "boolean" -> Bool(On(bMask, j))
      [] f.type = "number" -> IF On(nMask, j) THEN Num(n) ELSE Num(0)
      [] f.type = "multiOptions" ->
            IF On(sMask, j) THEN Arr(<<Str("A")>>) ELSE Arr(<<>>)
      [] f.type = "json" /\ f.kind = "propKeys" ->
            IF On(sMask, j) THEN Obj(Bag1("k", Num(1))) ELSE Obj(EmptyObject)
      [] f.type = "json" -> IF On(sMask, j) THEN Str("{\"k\":1}") ELSE Str("")
      [] f.type = "list" -> IF On(sMask, j) THEN Str("1, 2,3") ELSE Str("")
      [] OTHER -> IF On(sMask, j) THEN Str(f.param) ELSE Str("")

ParamsOf(fields) == {fields[j].param : j \in {i \in 1..Len(fields) : fields[i].kind # "attach"}}
PositionOf(fields, p) == CHOOSE j \in 1..Len(fields) : fields[j].param = p /\ fields[j].kind # "attach"

\* The parameters of the fields of a table
FieldBag(fields, sMask, bMask, nMask, n) ==
    [p \in ParamsOf(fields) |->
        InputOf(fields[PositionOf(fields, p)], PositionOf(fields, p), sMask, bMask, nMask, n)]

\* Every offered or not offered pair, raw or structured, with no field set.
DispatchItems ==
    { Base(r, o) @@ Common @@ rawS @@ rawD @@ ver :
        r \in Resources \cup {"webhook"}, o \in Operations \cup {"delete"},
        rawS \in {<<>>, Bag1("useRawJsonSearch", Bool(TRUE))},
        rawD \in {<<>>, Bag1("useRawJsonData", Bool(TRUE))},
        ver \in {<<>>, Bag1("apiVersion", Str("2"))} }

StructuredPairs ==
    { ro \in Resources \X Operations : FieldsOf(ro[1], ro[2]) # <<>> }

\* Every structured body with its fields set as the masks say.
StructuredItems ==
    { Base(ro[1], ro[2]) @@ Common @@ FieldBag(FieldsOf(ro[1], ro[2]), sMask, bMask, nMask, n) :
        ro \in StructuredPairs, sMask \in Masks, bMask \in Masks, nMask \in Masks,
        n \in 1..MaxNum }

BadJson == Str("{invalid")
RawFlags ==
    [x \in {"useRawJsonSearch", "useRawJsonData"} |-> Bool(TRUE)]

JsonPositions(fields) == {j \in 1..Len(fields) : fields[j].kind = "json"}

\* A structured body with one of its JSON fields holding malformed JSON.
MalformedFieldItems ==
    UNION { { Bag1(FieldsOf(ro[1], ro[2])[j].param, BadJson) @@ Base(ro[1], ro[2]) @@ Common
              @@ FieldBag(FieldsOf(ro[1], ro[2]), m, m, m, 1) :
                j \in JsonPositions(FieldsOf(ro[1], ro[2])), m \in {"none", "all"} } :
            ro \in StructuredPairs }

\* An offered operation with malformed JSON in include options, raw search,
\* raw data or scrape options, raw mode on or off.
MalformedCommonItems ==
    UNION { { Bag1(p, BadJson) @@ Base(r, o) @@ Common @@ raw :
                o \in OfferedOperations(r),
                p \in {"includeOptions", "search", "data", "scrapeOptions"},
                raw \in {<<>>, RawFlags} } :
            r \in Resources }

\* The groups of an import collection: fields set as a mask says, no field
\* at all, or the JSON text of externalValues as typed (valid or malformed).
GroupSet(groupFields) ==
    { Obj(FieldBag(groupFields, m, m, m, 1)) : m \in Masks }
    \cup { Obj(EmptyObject),
           Obj(Bag1("externalValues", Str("{\"k\":1}"))),
           Obj(Bag1("externalValues", BadJson)) }

RECURSIVE SeqsUpTo(_, _)
SeqsUpTo(S, n) ==
    IF n = 0 THEN {<<>>}
    ELSE SeqsUpTo(S, n - 1)
         \cup { Append(s, x) : s \in {t \in SeqsUpTo(S, n - 1) : Len(t) = n - 1}, x \in S }

Collections(prop, groupFields) ==
    { Obj(Bag1(prop, Arr(gs))) : gs \in SeqsUpTo(GroupSet(groupFields), MaxGroups) }
    \cup { Obj(EmptyObject) }

\* Structured imports with their collection of groups.
ImportItems ==
    { Bag1("companyImportAccounts", c) @@ Base("company", "import")
      @@ FieldBag(companyImportFields, m, m, m, 1) :
        c \in Collections("account", accountFields), m \in {"none", "all"} }
    \cup
    { Bag1("contactImportProspects", c) @@ Base("contact", "import")
      @@ FieldBag(contactImportFields, m, m, m, 1) :
        c \in Collections("prospect", prospectFields), m \in {"none", "all"} }

Entry(field, value) ==
    [x \in {"field", "value"} |-> IF x = "field" THEN Str(field) ELSE Str(value)]

\* The lists of additional-fields entries the inputs use.
EntryLists ==
    { <<Entry("Name", "B")>>,
      <<Entry("Name", ""), Entry("Extra", "")>>,
      <<Entry("Extra", "1"), Entry("Extra", "2")>>,
      <<Bag1("value", Str("lost")), Bag1("field", Str("Name"))>>,
      <<Entry("", "lost"), Entry("Name", "B"), Bag1("field", Str("Extra")), Entry("Name", "C")>> }

\* Structured bodies with additional fields.
AdditionalItems ==
    { [x \in {"searchAdditionalFields", "dataAdditionalFields"} |-> Arr(es)]
      @@ Base(ro[1], ro[2]) @@ Common @@ FieldBag(FieldsOf(ro[1], ro[2]), m, m, m, 1) :
        ro \in StructuredPairs, es \in EntryLists, m \in {"none", "all"} }

\* The JSON objects typed into the raw search, raw data and include options.
ObjectTexts == {"{}", "{\"k\":1}", "{\"Name\":\"raw\"}", "{\"limit\":9,\"x\":\"y\"}"}

\* Raw mode on top of a filled structured form: every field set, additional
\* fields declared, the raw text in search and data, the other toggle on or off.
RawItems ==
    { flags @@ [x \in {"search", "data"} |-> Str(t)]
      @@ [x \in {"searchAdditionalFields", "dataAdditionalFields"} |-> Arr(<<Entry("Name", "B")>>)]
      @@ Base(ro[1], ro[2]) @@ Common
      @@ FieldBag(FieldsOf(ro[1], ro[2]), "all", "all", "all", 1) :
        ro \in StructuredPairs, t \in ObjectTexts,
        flags \in {RawFlags, Bag1("useRawJsonSearch", Bool(TRUE)),
                   Bag1("useRawJsonData", Bool(TRUE))} }

\* get and getAll with include options (as text, or already an object), with
\* limit and offset, with additional fields left over from another operation.
IncludeItems ==
    { inc @@ page @@ extra @@ Base(r, o) @@ Common :
        r \in Resources, o \in {"get", "getAll"},
        inc \in {<<>>, Bag1("includeOptions", Obj(Bag1("k", Num(1))))}
                \cup { Bag1("includeOptions", Str(t)) : t \in ObjectTexts },
        page \in {<<>>, [x \in {"limit", "offset"} |-> IF x = "limit" THEN Num(10) ELSE Num(MaxNum)]},
        extra \in {<<>>, [x \in {"searchAdditionalFields", "dataAdditionalFields"} |->
                            Arr(<<Entry("Name", "B")>>)]} }

\* import getAll with its two filters.
ImportGetAllItems ==
    { [x \in {"importType", "importStatus"} |-> IF x = "importType" THEN Str(t) ELSE Str(s)]
      @@ Base("import", "getAll") :
        t \in {"", "Account"}, s \in {"", "Completed"} }

\* The texts typed into the comma-separated list fields.
ListTexts == {"1, 2,3", " ,7, ,", "a,b", ", ,", "5"}
IsList(f) == f.type = "list"
ListBag(fields, t) ==
    [p \in {fields[j].param : j \in {i \in 1..Len(fields) : IsList(fields[i])}} |-> Str(t)]

\* Structured bodies with a text in their comma-separated list fields.
ListItems ==
    { ListBag(FieldsOf(ro[1], ro[2]), t) @@ Base(ro[1], ro[2]) @@ Common
      @@ FieldBag(FieldsOf(ro[1], ro[2]), "none", "none", "none", 1) :
        ro \in {p \in StructuredPairs : ListBag(FieldsOf(p[1], p[2]), "") # <<>>},
        t \in ListTexts }

\* What a JSON-typed parameter can hold: nothing, the text of a JSON value
\* that is or is not an object, or a value that is not a text.
JsonValues ==
    { Str(""), Null, Str("{}"), Str("{\"k\":1}"), Str("5"), Str("true"), Str("false"),
      Str("null"),
      Str("\"x\""), Str("[]"), Obj(EmptyObject), Obj(Bag1("k", Num(1))), Num(3), Bool(TRUE) }
JsonParams == {"includeOptions", "search", "data", "scrapeOptions"}

\* Operations that read a JSON-typed parameter, with every such value in it:
\* include options, raw search, raw data and scrape options, and the JSON
\* fields of the structured company search.
JsonValueItems ==
    { [p \in JsonParams |-> v] @@ raw @@ Base(r, o) @@ Common :
        v \in JsonValues, r \in {"company", "contact"},
        o \in {"get", "getAll", "search", "create", "update"}, raw \in {<<>>, RawFlags} }
    \cup { Bag1(companySearchFields[j].param, v) @@ Base("company", "search") @@ Common :
             v \in JsonValues, j \in JsonPositions(companySearchFields) }
    \cup { [p \in JsonParams |->
               CASE p = "data" -> Str("{\"k\":1}")
                 [] p = "scrapeOptions" -> Obj(Bag1("k", Num(1)))
                 [] p = "search" -> Null
                 [] OTHER -> Str("")]
           @@ RawFlags @@ Base("company", "create") @@ Common }

\* task search with its query flag, its page and the raw toggle.
TaskSearchItems ==
    { wo @@ raw @@ lim @@ off @@ Base("task", "search") @@ Common :
        wo \in {<<>>, Bag1("withOpportunities", Bool(TRUE)), Bag1("withOpportunities", Bool(FALSE))},
        raw \in {<<>>, Bag1("useRawJsonSearch", Bool(TRUE))},
        lim \in {<<>>, Bag1("taskSearchLimit", Num(10))},
        off \in {<<>>, Bag1("taskSearchOffset", Num(0)), Bag1("taskSearchOffset", Num(MaxNum))} }

\* All the single items the model runs.
ItemSet ==
    DispatchItems \cup StructuredItems \cup MalformedFieldItems
    \cup MalformedCommonItems \cup ImportItems \cup AdditionalItems
    \cup RawItems \cup IncludeItems \cup ImportGetAllItems \cup ListItems
    \cup TaskSearchItems \cup JsonValueItems

\* The items of the batches of more than one item: a plain GET, a structured
\* POST, a GET by id, an item with malformed JSON and one with an unknown
\* resource.
BatchItems ==
    { Base("company", "getAll"),
      Base("task", "create") @@ FieldBag(taskCreateFields, "all", "all", "all", 1),
      Base("import", "get") @@ Common,
      Base("strategy", "searchDetails") @@ FieldBag(strategyDetailsFields, "odd", "all", "all", 1),
      Bag1("search", BadJson) @@ Base("company", "search") @@ RawFlags,
      Base("webhook", "getAll") }

Batches ==
    { <<it>> : it \in ItemSet } \cup SeqsUpTo(BatchItems, MaxItems)

CredentialSet == { Bag1("baseUrl", Str("")), Bag1("baseUrl", Str("https://crono.test")) }

\* The JSON responses of the server.
Responses == { Obj(Bag1("id", Num(1))), Obj(Bag1("id", Num(2))) }

\* ------------------------------------------------------------- execute
NoRequest == [none |-> TRUE]
NoResult == <<>>
Pending == [pending |-> TRUE]
Failed == [failed |-> TRUE]

\* returnData.push({ json: responseData, pairedItem: { item: itemIndex } })
PushMut(data, responseData, idx) ==
    <<[json |-> responseData, pairedItem |-> [item |-> idx]]>> \o data
Push(data, responseData, idx) ==
    Append(data, [json |-> responseData, pairedItem |-> [item |-> idx]])

Init ==
    /\ items \in Batches
    /\ credentials \in CredentialSet
    /\ itemIndex = 0
    /\ pc = "loop"
    /\ request = NoRequest
    /\ calls = <<>>
    /\ returnData = <<>>
    /\ error = NoError
    /\ result = NoResult

DispatchCarryMut ==
    /\ pc = "loop"
    /\ itemIndex < Len(items)
    /\ \E r \in {BuildRequest(items[itemIndex + 1], itemIndex)} :
       /\ r.ok
       /\ \E options \in {cronoApiRequest(credentials, r.val.method, r.val.endpoint,
                                           r.val.qs, r.val.body)} :
          \E carried \in {IF calls = <<>> THEN options
                          ELSE options @@ calls[Len(calls)].options} :
             /\ request' = carried
             /\ calls' = Append(calls, [item |-> itemIndex, options |-> carried,
                                        response |-> Pending])
    /\ pc' = "await"
    /\ UNCHANGED <<items, credentials, itemIndex, returnData, error, result>>

DispatchMut ==
    /\ pc \in {"loop", "await"}
    /\ Len(calls) < Len(items)
    /\ \E r \in {BuildRequest(items[Len(calls) + 1], Len(calls))} :
       /\ r.ok
       /\ \E options \in {cronoApiRequest(credentials, r.val.method, r.val.endpoint,
                                           r.val.qs, r.val.body)} :
          /\ request' = options
          /\ calls' = Append(calls, [item |-> Len(calls), options |-> options,
                                     response |-> Pending])
    /\ pc' = "await"
    /\ UNCHANGED <<items, credentials, itemIndex, returnData, error, result>>

\* One turn of the loop up to the await: the request of the current item is
\* built and handed to httpRequestWithAuthentication.
Dispatch ==
    /\ pc = "loop"
    /\ itemIndex < Len(items)
    /\ \E r \in {BuildRequest(items[itemIndex + 1], itemIndex)} :
       /\ r.ok
       /\ \E options \in {cronoApiRequest(credentials, r.val.method, r.val.endpoint,
                                           r.val.qs, r.val.body)} :
          /\ request' = options
          /\ calls' = Append(calls, [item |-> itemIndex, options |-> options,
                                     response |-> Pending])
    /\ pc' = "await"
    /\ UNCHANGED <<items, credentials, itemIndex, returnData, error, result>>

DispatchThrowsLateMut ==
    /\ pc = "loop"
    /\ itemIndex < Len(items)
    /\ \E r \in {BuildRequest(items[itemIndex + 1], itemIndex)} :
       /\ ~r.ok
       /\ error' = r.err
    /\ calls' = Append(calls, [item |-> itemIndex, options |-> NoRequest, response |-> Failed])
    /\ pc' = "thrown"
    /\ UNCHANGED <<items, credentials, itemIndex, request, returnData, result>>

DispatchThrowsMut ==
    /\ pc = "loop"
    /\ itemIndex < Len(items)
    /\ \E r \in {BuildRequest(items[itemIndex + 1], itemIndex)} :
       /\ ~r.ok
       /\ error' = r.err
    /\ itemIndex' = itemIndex + 1
    /\ UNCHANGED <<items, credentials, pc, request, calls, returnData, result>>

\* One turn of the loop in which building the request throws: the error
\* leaves execute.
DispatchThrows ==
    /\ pc = "loop"
    /\ itemIndex < Len(items)
    /\ \E r \in {BuildRequest(items[itemIndex + 1], itemIndex)} :
       /\ ~r.ok
       /\ error' = r.err
    /\ pc' = "thrown"
    /\ UNCHANGED <<items, credentials, itemIndex, request, calls, returnData, result>>

\* The awaited call resolves: the response is pushed and the loop goes on.
HttpResponds ==
    /\ pc = "await"
    /\ \E responseData \in Responses :
        /\ returnData' = Push(returnData, responseData, itemIndex)
        /\ calls' = [calls EXCEPT ![Len(calls)].response = responseData]
    /\ itemIndex' = itemIndex + 1
    /\ request' = NoRequest
    /\ pc' = "loop"
    /\ UNCHANGED <<items, credentials, error, result>>

HttpFailsPartialMut ==
    /\ pc = "await"
    /\ calls' = [calls EXCEPT ![Len(calls)].response = Failed]
    /\ error' = HttpError
    /\ request' = NoRequest
    /\ result' = <<returnData>>
    /\ pc' = "thrown"
    /\ UNCHANGED <<items, credentials, itemIndex, returnData>>

HttpFailsMut ==
    /\ pc = "await"
    /\ calls' = [calls EXCEPT ![Len(calls)].response = Failed]
    /\ request' = NoRequest
    /\ pc' = "loop"
    /\ UNCHANGED <<items, credentials, itemIndex, returnData, error, result>>

\* The awaited call rejects: the error leaves execute.
HttpFails ==
    /\ pc = "await"
    /\ calls' = [calls EXCEPT ![Len(calls)].response = Failed]
    /\ error' = HttpError
    /\ request' = NoRequest
    /\ pc' = "thrown"
    /\ UNCHANGED <<items, credentials, itemIndex, returnData, result>>

\* The loop is over: return [returnData].
Return ==
    /\ pc = "loop"
    /\ itemIndex >= Len(items)
    /\ result' = <<returnData>>
    /\ pc' = "returned"
    /\ UNCHANGED <<items, credentials, itemIndex, request, calls, returnData, error>>

Next == Dispatch \/ DispatchThrows \/ HttpResponds \/ HttpFails \/ Return

Spec == Init /\ [][Next]_vars

\* ---------------------------------------------------------------- claims
\* The item the loop is at, its resource and its operation.
CurrentItem == items[itemIndex + 1]
ResourceOf(item) == item["resource"].str
OperationOf(item) == item["operation"].str
InFlight == pc = "await"
Offered(item) ==
    ResourceOf(item) \in Resources /\ OperationOf(item) \in OfferedOperations(ResourceOf(item))

\* The documented dispatch table.
Collection(resource) ==
    CASE resource = "company" -> "Accounts"
      [] resource = "contact" -> "Prospects"
      [] resource = "deal" -> "Opportunities"
      [] resource = "note" -> "Notes"
      [] resource = "task" -> "Tasks"
      [] resource = "activity" -> "Activities"
      [] resource = "list" -> "CronoLists"
      [] resource = "pipeline" -> "Pipelines"
      [] resource = "strategy" -> "Strategies"
      [] resource = "externalProperty" -> "ExternalProperties"
      [] resource = "user" -> "Users"
      [] OTHER -> "Import"
DocumentedMethod(operation) ==
    CASE operation \in {"get", "getAll"} -> "GET"
      [] operation = "update" -> "PATCH"
      [] OTHER -> "POST"
IdOf(item) ==
    CASE ResourceOf(item) = "user" -> Template(item["userId"])
      [] ResourceOf(item) = "import" -> Template(item["importId"])
      [] OTHER -> Template(item["objectId"])
DocumentedSuffix(item) ==
    CASE OperationOf(item) = "get" -> "/" \o IdOf(item)
      [] OperationOf(item) = "search" -> "/search"
      [] OperationOf(item) = "searchDetails" -> "/details"
      [] OperationOf(item) = "import" -> "/import"
      [] OTHER -> ""
BaseUrlOf(creds) == IF creds["baseUrl"] = Str("") THEN "https://ext.crono.one" ELSE creds["baseUrl"].str
VersionOf(item) == IF "apiVersion" \in DOMAIN item THEN item["apiVersion"].str ELSE "1"

\* C1: for every offered (resource, operation) pair the request in flight
\* has the documented method and the documented endpoint under
\* /api/v{apiVersion}.
C1_DispatchTable ==
    (InFlight /\ Offered(CurrentItem)) =>
        /\ request["method"] = Str(DocumentedMethod(OperationOf(CurrentItem)))
        /\ request["url"] = Str(BaseUrlOf(credentials) \o "/api/v" \o VersionOf(CurrentItem)
                                \o "/" \o Collection(ResourceOf(CurrentItem))
                                \o DocumentedSuffix(CurrentItem))

C1_Witness ==
    /\ InFlight
    /\ ResourceOf(CurrentItem) = "strategy"
    /\ OperationOf(CurrentItem) = "searchDetails"
    /\ request["method"] = Str("POST")
    /\ request["url"] = Str("https://ext.crono.one/api/v2/Strategies/details")

\* C2: when execute returns, it returns one output item per input item, in
\* input order; output item i wraps the response to the call issued for
\* input item i, which carries the request built from that item, and has
\* pairedItem.item = i.
C2_OneOutputPerItem ==
    pc = "returned" =>
        /\ Len(result) = 1
        /\ Len(result[1]) = Len(items)
        /\ Len(calls) = Len(items)
        /\ \A i \in 1..Len(items) :
            /\ result[1][i].pairedItem.item = i - 1
            /\ calls[i].item = i - 1
            /\ result[1][i].json = calls[i].response
            /\ LET r == BuildRequest(items[i], i - 1) IN
               /\ r.ok
               /\ calls[i].options = cronoApiRequest(credentials, r.val.method, r.val.endpoint,
                                                     r.val.qs, r.val.body)

C2_Witness ==
    /\ pc = "returned"
    /\ Len(items) = 3
    /\ result[1][1].json # result[1][2].json
    /\ calls[1].options # calls[2].options
    /\ result[1][3].pairedItem.item = 2

\* C3: the items are processed one after the other: at most one call is in
\* flight, every earlier call has completed, and the call in flight is the
\* call of the item the loop is at; no item after it has been dispatched.
C3_Sequential ==
    /\ Cardinality({k \in 1..Len(calls) : calls[k].response = Pending}) <= 1
    /\ \A k \in 1..Len(calls) :
        /\ calls[k].item = k - 1
        /\ calls[k].response = Pending => (k = Len(calls) /\ InFlight /\ itemIndex = k - 1)
    /\ Len(calls) <= itemIndex + 1
    /\ InFlight => (Len(calls) = itemIndex + 1 /\ calls[Len(calls)].response = Pending)

C3_Witness ==
    /\ InFlight
    /\ itemIndex = 1
    /\ Len(items) = 3
    /\ calls[1].response \in Responses
    /\ calls[2].response = Pending

\* C4: an item causes at most one HTTP call, exactly one once it has been
\* processed successfully; a failed call is the last call execute makes.
CallsOf(i) == {k \in 1..Len(calls) : calls[k].item = i}
C4_OneCallPerItem ==
    /\ \A i \in 0..(Len(items) - 1) : Cardinality(CallsOf(i)) <= 1
    /\ \A i \in 0..(itemIndex - 1) :
        /\ Cardinality(CallsOf(i)) = 1
        /\ \A k \in CallsOf(i) : calls[k].response \in Responses
    /\ \A k \in 1..Len(calls) :
        calls[k].response = Failed => (k = Len(calls) /\ pc = "thrown")

C4_Witness ==
    /\ pc = "thrown"
    /\ Len(calls) = 2
    /\ calls[1].response \in Responses
    /\ calls[2].response = Failed
    /\ itemIndex = 1

\* An item that has been processed and has failed: building its request
\* threw, or its HTTP call was rejected.
BuildFailed(k) ==
    /\ ~BuildRequest(items[k + 1], k).ok
    /\ (itemIndex > k \/ (itemIndex = k /\ pc # "loop"))
HttpFailed(k) == \E c \in CallsOf(k) : calls[c].response = Failed

\* C5: when item k fails, the error leaves execute (nothing is returned) and
\* no request has been issued for an item after k.
C5_NoIsolation ==
    \A k \in 0..(Len(items) - 1) :
        (BuildFailed(k) \/ HttpFailed(k)) =>
            /\ pc = "thrown"
            /\ itemIndex = k
            /\ error = (IF HttpFailed(k) THEN HttpError ELSE BuildRequest(items[k + 1], k).err)
            /\ result = NoResult
            /\ \A c \in 1..Len(calls) : calls[c].item <= k

C5_Witness ==
    /\ pc = "thrown"
    /\ Len(items) = 3
    /\ itemIndex = 1
    /\ BuildFailed(1)
    /\ Len(calls) = 1
    /\ BuildRequest(items[3], 2).ok

\* C6: a resource outside the twelve supported ones makes execute fail with
\* an "Unsupported resource" error that carries the index of the item, and
\* no request is issued for the item.
C6_UnsupportedResource ==
    \A k \in 0..(Len(items) - 1) :
        (ResourceOf(items[k + 1]) \notin Resources
         /\ (itemIndex > k \/ (itemIndex = k /\ pc # "loop"))) =>
            /\ pc = "thrown"
            /\ itemIndex = k
            /\ error.kind = "NodeOperationError"
            /\ error.message = "Unsupported resource: " \o ResourceOf(items[k + 1])
            /\ error.itemIndex = k
            /\ CallsOf(k) = {}

C6_Witness ==
    /\ pc = "thrown"
    /\ itemIndex = 2
    /\ ResourceOf(items[3]) = "webhook"
    /\ error.message = "Unsupported resource: webhook"
    /\ error.itemIndex = 2

\* ------------------------------------------- claims on the request bodies
IsSearch(operation) == operation \in {"search", "searchDetails"}
RawFlagOf(item) ==
    IF IsSearch(OperationOf(item)) THEN "useRawJsonSearch" ELSE "useRawJsonData"
IsRaw(item) == RawFlagOf(item) \in DOMAIN item /\ item[RawFlagOf(item)] = Bool(TRUE)

\* An offered operation whose body is built field by field.
Structured(item) ==
    /\ Offered(item)
    /\ FieldsOf(ResourceOf(item), OperationOf(item)) # <<>>
    /\ ~IsRaw(item)

\* What the user typed for a parameter; left alone it has its default (a
\* field of an import group that was left alone has no value at all).
InputOr(src, param, default) == IF param \in DOMAIN src THEN src[param] ELSE default

\* The keys the additional fields of an item declare.
DeclaredEntries(item) ==
    InputOr(item, IF IsSearch(OperationOf(item)) THEN "searchAdditionalFields"
                  ELSE "dataAdditionalFields", Arr(<<>>)).arr
AdditionalKeys(item) ==
    { DeclaredEntries(item)[i]["field"].str :
        i \in {k \in 1..Len(DeclaredEntries(item)) :
                  /\ "field" \in DOMAIN DeclaredEntries(item)[k]
                  /\ DeclaredEntries(item)[k]["field"] # Str("")} }

\* The body of the request in flight, and the object the fields of the
\* current item are written to: the body of a search, body.data otherwise.
RequestBody == IF "body" \in DOMAIN request THEN request["body"].obj ELSE EmptyObject
TopObject ==
    IF IsSearch(OperationOf(CurrentItem)) THEN RequestBody ELSE RequestBody["data"].obj

TopLocals == {"searchBody", "data", "accountData", "prospectData"}
AttachOf(fields, local) ==
    fields[CHOOSE j \in 1..Len(fields) : fields[j].kind = "attach" /\ fields[j].param = local]

\* The key of the top object a field ends up under, and the object that
\* holds the key of the field: the top object or one of its sub-objects
\* (none when the sub-object was not attached).
TopKeyOf(fields, f) == IF f.tgt \in TopLocals THEN f.key ELSE AttachOf(fields, f.tgt).key
ContainerOf(fields, f, top) ==
    IF f.tgt \in TopLocals THEN top
    ELSE IF AttachOf(fields, f.tgt).key \in DOMAIN top
         THEN top[AttachOf(fields, f.tgt).key].obj
         ELSE EmptyObject

Absent(o, key) == key \notin DOMAIN o
Holds(o, key, v) == key \in DOMAIN o /\ o[key] = v

\* A rule holds of every field of a table that select picks and no
\* additional field overrides.
FieldsFollow(fields, src, top, overridden, select(_), Rule(_, _, _)) ==
    \A j \in 1..Len(fields) :
        (select(fields[j]) /\ TopKeyOf(fields, fields[j]) \notin overridden) =>
            Rule(fields[j], src, ContainerOf(fields, fields[j], top))

\* The import collection of a resource and the groups an item declares.
GroupsOf(resource) ==
    IF resource = "company"
    THEN [param |-> "companyImportAccounts", prop |-> "account", key |-> "Accounts",
          fields |-> accountFields]
    ELSE [param |-> "contactImportProspects", prop |-> "prospect", key |-> "Prospects",
          fields |-> prospectFields]
DeclaredGroups(item) ==
    IF OperationOf(item) = "import" /\ GroupsOf(ResourceOf(item)).param \in DOMAIN item
    THEN InputOr(item[GroupsOf(ResourceOf(item)).param].obj,
                 GroupsOf(ResourceOf(item)).prop, Arr(<<>>)).arr
    ELSE <<>>

\* A rule holds of every field of every group of the import collection.
GroupsFollow(item, top, overridden, select(_), Rule(_, _, _)) ==
    (DeclaredGroups(item) # <<>> /\ GroupsOf(ResourceOf(item)).key \notin overridden) =>
        /\ GroupsOf(ResourceOf(item)).key \in DOMAIN top
        /\ Len(top[GroupsOf(ResourceOf(item)).key].arr) = Len(DeclaredGroups(item))
        /\ \A i \in 1..Len(DeclaredGroups(item)) :
            FieldsFollow(GroupsOf(ResourceOf(item)).fields, DeclaredGroups(item)[i].obj,
                         top[GroupsOf(ResourceOf(item)).key].arr[i].obj, {}, select, Rule)

\* A rule holds of the structured body of the request in flight.
BodyFollows(select(_), Rule(_, _, _)) ==
    (InFlight /\ Structured(CurrentItem)) =>
        /\ FieldsFollow(FieldsOf(ResourceOf(CurrentItem), OperationOf(CurrentItem)),
                        CurrentItem, TopObject, AdditionalKeys(CurrentItem), select, Rule)
        /\ GroupsFollow(CurrentItem, TopObject, AdditionalKeys(CurrentItem), select, Rule)

\* ------------------------------------------------------------------- C7
Malformed(v) == IsStr(v) /\ v # Str("") /\ ~JsonParse(v.str).ok
JsonFieldParams(fields) == { fields[j].param : j \in {i \in 1..Len(fields) : fields[i].type = "json"} }

\* The JSON-typed parameters of the active (resource, operation) of an item.
ActiveJsonParams(item) ==
    { p \in {"includeOptions"} :
        /\ ResourceOf(item) \in {"company", "contact", "deal", "note", "activity"}
        /\ OperationOf(item) \in {"get", "getAll"} }
    \cup { p \in {"search"} : IsSearch(OperationOf(item)) /\ IsRaw(item) }
    \cup { p \in {"data"} : OperationOf(item) \in {"create", "update", "import"} /\ IsRaw(item) }
    \cup { p \in {"scrapeOptions"} :
            ResourceOf(item) \in {"company", "contact"} /\ OperationOf(item) = "create" }
    \cup { p \in JsonFieldParams(FieldsOf(ResourceOf(item), OperationOf(item))) :
            Structured(item) }
MalformedParams(item) ==
    { p \in ActiveJsonParams(item) : p \in DOMAIN item /\ Malformed(item[p]) }

\* The JSON-typed parameters of the import groups of an item that hold
\* malformed JSON text.
MalformedGroupParams(item) ==
    IF ~Structured(item) THEN {}
    ELSE { p \in JsonFieldParams(GroupsOf(ResourceOf(item)).fields) :
            \E i \in 1..Len(DeclaredGroups(item)) :
                /\ p \in DOMAIN DeclaredGroups(item)[i].obj
                /\ Malformed(DeclaredGroups(item)[i].obj[p]) }

NamesParameter(err, params) ==
    \E p \in params : err.message = "Parameter \"" \o p \o "\" is not valid JSON."

\* C7: once the loop has worked on an item of an offered operation that holds
\* malformed JSON text in one of its active JSON-typed parameters, those of
\* its import groups included, execute has failed with an error that names
\* such a parameter and carries the index of the item.
C7_MalformedJsonFails ==
    (/\ pc \in {"await", "thrown"}
     /\ Offered(CurrentItem)
     /\ MalformedParams(CurrentItem) \cup MalformedGroupParams(CurrentItem) # {}) =>
        /\ pc = "thrown"
        /\ error.kind = "NodeOperationError"
        /\ error.itemIndex = itemIndex
        /\ NamesParameter(error, MalformedParams(CurrentItem)
                                 \cup MalformedGroupParams(CurrentItem))

\* ------------------------------------------------------------------- C8
IsStringField(f) == f.type \in {"string", "options", "dateTime"}
StringRule(f, src, o) ==
    IF InputOr(src, f.param, f.def) \in {Str(""), Undefined}
    THEN Absent(o, f.key)
    ELSE Holds(o, f.key, InputOr(src, f.param, f.def))

\* C8: in the structured body of the request in flight every string field
\* (text, identifier, option, date) the additional fields do not override
\* has no key when its input is the empty string and has its key with
\* exactly the input when the input is not empty.
C8_StringFields == BodyFollows(IsStringField, StringRule)

C8_Witness ==
    /\ InFlight
    /\ Structured(CurrentItem)
    /\ ResourceOf(CurrentItem) = "company"
    /\ OperationOf(CurrentItem) = "search"
    /\ InputOr(CurrentItem, "companySearchName", Str("")) = Str("companySearchName")
    /\ InputOr(CurrentItem, "companySearchIndustry", Str("x")) = Str("")
    /\ Holds(RequestBody, "Name", Str("companySearchName"))
    /\ Absent(RequestBody, "Industry")

\* ------------------------------------------------------------------- C9
IsBooleanField(f) == f.type = "boolean"
BooleanRule(f, src, o) ==
    IF f.param = "companySearchCleanEmptyName"
    THEN Holds(o, f.key, InputOr(src, f.param, Bool(TRUE)))
    ELSE IF InputOr(src, f.param, Bool(FALSE)) = Bool(TRUE)
         THEN Holds(o, f.key, Bool(TRUE))
         ELSE Absent(o, f.key)

\* C9: in the structured body of the request in flight every boolean field
\* has no key when its input is false and has its key set to true when its
\* input is true, except companySearchCleanEmptyName, whose key is always
\* there with the value of the parameter (true when left alone).
C9_BooleanFields == BodyFollows(IsBooleanField, BooleanRule)

C9_Witness ==
    /\ InFlight
    /\ Structured(CurrentItem)
    /\ ResourceOf(CurrentItem) = "company"
    /\ OperationOf(CurrentItem) = "search"
    /\ InputOr(CurrentItem, "companySearchNoUser", Bool(FALSE)) = Bool(TRUE)
    /\ InputOr(CurrentItem, "companySearchHasLinkedin", Bool(TRUE)) = Bool(FALSE)
    /\ InputOr(CurrentItem, "companySearchCleanEmptyName", Bool(TRUE)) = Bool(FALSE)
    /\ Holds(RequestBody, "NoUser", Bool(TRUE))
    /\ Absent(RequestBody, "HasLinkedin")
    /\ Holds(RequestBody, "CleanEmptyName", Bool(FALSE))

\* ------------------------------------------------------------------ C10
DefaultsToZero(f) == f.type = "number" /\ f.def \in {Num(0), Undefined}
OmitsZero(f, src, o) ==
    IF InputOr(src, f.param, Num(0)) = Num(0)
    THEN Absent(o, f.key)
    ELSE Holds(o, f.key, src[f.param])
SentAsIs(f, src, o) == Holds(o, f.key, InputOr(src, f.param, Num(0)))

\* C10 as stated: in the structured body of the request in flight every
\* numeric field whose default is 0, pagination offsets and
\* strategyDetailsStrategyId included, has no key when its input is 0 and
\* has its key with the input when the input is not 0.
C10_ZeroOmitsEveryNumber == BodyFollows(DefaultsToZero, OmitsZero)

IsOffsetOrStrategyId(f) == f.key = "Offset" \/ f.param = "strategyDetailsStrategyId"
NumberRule(f, src, o) ==
    IF IsOffsetOrStrategyId(f) THEN SentAsIs(f, src, o) ELSE OmitsZero(f, src, o)

\* C10 amended: every numeric field whose default is 0 has no key when its
\* input is 0 and has its key with the input when the input is not 0, except
\* the pagination offsets and strategyDetailsStrategyId, whose keys are
\* there with the input, 0 included.
C10_NumberFields == BodyFollows(DefaultsToZero, NumberRule)

C10_Witness ==
    /\ InFlight
    /\ Structured(CurrentItem)
    /\ ResourceOf(CurrentItem) = "company"
    /\ OperationOf(CurrentItem) = "search"
    /\ InputOr(CurrentItem, "companySearchNumberOfEmployeesMax", Num(0)) = Num(2)
    /\ InputOr(CurrentItem, "companySearchNumberOfEmployeesMin", Num(1)) = Num(0)
    /\ InputOr(CurrentItem, "companySearchOffset", Num(1)) = Num(0)
    /\ Holds(RequestBody, "NumberOfEmployeesMax", Num(2))
    /\ Absent(RequestBody, "NumberOfEmployeesMin")
    /\ Holds(RequestBody["Pagination"].obj, "Offset", Num(0))

\* ------------------------------------------------------------------ C11
RawParamOf(item) == IF IsSearch(OperationOf(item)) THEN "search" ELSE "data"

\* An offered operation in raw-JSON mode whose raw field holds the text of a
\* JSON object.
RawMode(item) ==
    /\ Offered(item)
    /\ FieldsOf(ResourceOf(item), OperationOf(item)) # <<>>
    /\ IsRaw(item)
HoldsJsonObject(item, param) ==
    /\ param \in DOMAIN item
    /\ IsStr(item[param])
    /\ item[param] # Str("")
    /\ JsonParse(item[param].str).ok
    /\ IsObj(JsonParse(item[param].str).val)
ParsedOf(item, param) == JsonParse(item[param].str).val

\* C11: in raw-JSON mode the parsed raw object is the payload as it is: the
\* body of a search is the parsed search field and the data of a create,
\* update or import body is the parsed data field, whatever the structured
\* fields and the additional fields of the item hold.
C11_RawVerbatim ==
    (/\ InFlight
     /\ RawMode(CurrentItem)
     /\ HoldsJsonObject(CurrentItem, RawParamOf(CurrentItem))) =>
        IF IsSearch(OperationOf(CurrentItem))
        THEN RequestBody = ParsedOf(CurrentItem, "search").obj
        ELSE Holds(RequestBody, "data", ParsedOf(CurrentItem, "data"))

C11_Witness ==
    /\ InFlight
    /\ RawMode(CurrentItem)
    /\ ResourceOf(CurrentItem) = "company"
    /\ OperationOf(CurrentItem) = "update"
    /\ InputOr(CurrentItem, "data", Str("")) = Str("{\"limit\":9,\"x\":\"y\"}")
    /\ InputOr(CurrentItem, "companyUpdateName", Str("")) # Str("")
    /\ AdditionalKeys(CurrentItem) = {"Name"}
    /\ DOMAIN RequestBody = {"data"}
    /\ DOMAIN RequestBody["data"].obj = {"limit", "x"}
    /\ RequestBody["data"].obj["limit"] = Num(9)

\* ------------------------------------------------------------------ C12
\* The options execute would hand to the HTTP helper for an item, or the
\* error building them throws.
RequestOf(item, idx) ==
    LET of(r) == IF r.ok
                 THEN cronoApiRequest(credentials, r.val.method, r.val.endpoint,
                                      r.val.qs, r.val.body)
                 ELSE r.err
    IN of(BuildRequest(item, idx))

\* The toggle and the raw field of the other kind of payload, and the
\* values tried for them.
OtherToggleOf(item) ==
    IF IsSearch(OperationOf(item)) THEN "useRawJsonData" ELSE "useRawJsonSearch"
OtherRawParamOf(item) == IF IsSearch(OperationOf(item)) THEN "data" ELSE "search"
OtherSettings(item) ==
    { [x \in {OtherToggleOf(item), OtherRawParamOf(item)} |->
         IF x = OtherToggleOf(item) THEN Bool(b) ELSE t] :
        b \in BOOLEAN, t \in {Str(""), Str("{\"k\":1}"), Str("{\"Name\":\"raw\"}"), BadJson} }

\* C12: the request in flight of a search or searchDetails does not change
\* with useRawJsonData or the data field, and the request in flight of a
\* create, update or import does not change with useRawJsonSearch or the
\* search field.
C12_TogglesIndependent ==
    (InFlight /\ Offered(CurrentItem)
     /\ FieldsOf(ResourceOf(CurrentItem), OperationOf(CurrentItem)) # <<>>) =>
        \A other \in OtherSettings(CurrentItem) :
            RequestOf(other @@ CurrentItem, itemIndex) = request

\* A raw search with useRawJsonData on as well: the data toggle changes
\* nothing, the search toggle does.
C12_Witness ==
    /\ InFlight
    /\ ResourceOf(CurrentItem) = "deal"
    /\ OperationOf(CurrentItem) = "search"
    /\ InputOr(CurrentItem, "useRawJsonSearch", Bool(FALSE)) = Bool(TRUE)
    /\ InputOr(CurrentItem, "useRawJsonData", Bool(FALSE)) = Bool(TRUE)
    /\ RequestBody = ParsedOf(CurrentItem, "search").obj
    /\ RequestOf(Bag1("useRawJsonData", Bool(FALSE)) @@ CurrentItem, itemIndex) = request
    /\ RequestOf(Bag1("useRawJsonSearch", Bool(FALSE)) @@ CurrentItem, itemIndex) # request

\* ------------------------------------------------------------------ C13
\* The value the last entry named key declares; a missing value counts as
\* the empty string.
LastEntryOf(entries, key) ==
    entries[CHOOSE i \in 1..Len(entries) :
        /\ InputOr(entries[i], "field", Undefined) = Str(key)
        /\ \A j \in (i + 1)..Len(entries) : InputOr(entries[j], "field", Undefined) # Str(key)]
DeclaredValue(entries, key) ==
    IF InputOr(LastEntryOf(entries, key), "value", Undefined) \in {Undefined, Null}
    THEN Str("")
    ELSE LastEntryOf(entries, key)["value"]

\* C13: in structured mode every key the additional fields declare holds, in
\* the search body or data object of the request in flight, the value the
\* additional fields give it, also when a structured field generated the
\* same key.
C13_AdditionalWins ==
    (InFlight /\ Structured(CurrentItem)) =>
        \A key \in AdditionalKeys(CurrentItem) :
            Holds(TopObject, key, DeclaredValue(DeclaredEntries(CurrentItem), key))

C13_Witness ==
    /\ InFlight
    /\ Structured(CurrentItem)
    /\ ResourceOf(CurrentItem) = "company"
    /\ OperationOf(CurrentItem) = "search"
    /\ InputOr(CurrentItem, "companySearchName", Str("")) = Str("companySearchName")
    /\ DeclaredEntries(CurrentItem) = <<Entry("Name", "B")>>
    /\ Holds(RequestBody, "Name", Str("B"))
    /\ Holds(RequestBody, "Industry", Str("companySearchIndustry"))

\* ------------------------------------------------------------------ C14
AdditionalParams == {"searchAdditionalFields", "dataAdditionalFields"}
EntriesOf(item, param) == InputOr(item, param, Arr(<<>>)).arr
NamedKeys(entries) ==
    { entries[i]["field"].str :
        i \in {k \in 1..Len(entries) :
                 InputOr(entries[k], "field", Undefined) \notin {Undefined, Null, Str("")}} }

\* C14: for every item of the batch, getAdditionalFields maps the list of
\* entries to the mapping whose keys are the field names of the entries that
\* have one, each with the value of the last entry of that name, the empty
\* string when that entry has no value.
C14_AdditionalMapping ==
    \A i \in 1..Len(items) : \A param \in AdditionalParams :
        /\ DOMAIN getAdditionalFields(items[i], param) = NamedKeys(EntriesOf(items[i], param))
        /\ \A key \in NamedKeys(EntriesOf(items[i], param)) :
            getAdditionalFields(items[i], param)[key]
                = DeclaredValue(EntriesOf(items[i], param), key)

\* A search in flight whose entries hold an entry without a name, two entries
\* named Name and an entry without a value.
C14_Witness ==
    /\ InFlight
    /\ Structured(CurrentItem)
    /\ IsSearch(OperationOf(CurrentItem))
    /\ Len(EntriesOf(CurrentItem, "searchAdditionalFields")) = 4
    /\ EntriesOf(CurrentItem, "searchAdditionalFields")[1] = Entry("", "lost")
    /\ EntriesOf(CurrentItem, "searchAdditionalFields")[2] = Entry("Name", "B")
    /\ EntriesOf(CurrentItem, "searchAdditionalFields")[4] = Entry("Name", "C")
    /\ DOMAIN getAdditionalFields(CurrentItem, "searchAdditionalFields") = {"Name", "Extra"}
    /\ Holds(RequestBody, "Name", Str("C"))
    /\ Holds(RequestBody, "Extra", Str(""))
    /\ Absent(RequestBody, "")

\* ------------------------------------------------------------------ C15
\* The trimmed non-empty segments of the texts the lists are given; a text
\* without a comma or a blank is its own only segment.
SegmentsOf(t) ==
    CASE t = "" -> <<>>
      [] t = "1, 2,3" -> <<"1", "2", "3">>
      [] t = " ,7, ," -> <<"7">>
      [] t = "a,b" -> <<"a", "b">>
      [] t = ", ," -> <<>>
      [] OTHER -> <<t>>
Decimals == [s \in {"1", "2", "3", "5", "7"} |->
                CASE s = "1" -> 1 [] s = "2" -> 2 [] s = "3" -> 3 [] s = "5" -> 5 [] s = "7" -> 7]
NumericIdKeys ==
    {"ExternalPropertyEmptyIds", "AccountExternalPropertyEmptyIds",
     "AiExternalPropertiesIdsToGenerate"}
StringsOf(segments) == Arr([i \in 1..Len(segments) |-> Str(segments[i])])
HoldsIntegers(o, key, segments) ==
    /\ key \in DOMAIN o
    /\ IsArr(o[key])
    /\ Len(o[key].arr) = Len(segments)
    /\ \A i \in 1..Len(segments) :
        segments[i] \in DOMAIN Decimals => o[key].arr[i] = Num(Decimals[segments[i]])
ListRule(f, src, o) ==
    IF SegmentsOf(InputOr(src, f.param, Str("")).str) = <<>>
    THEN Absent(o, f.key)
    ELSE IF f.key \in NumericIdKeys
         THEN HoldsIntegers(o, f.key, SegmentsOf(InputOr(src, f.param, Str("")).str))
         ELSE Holds(o, f.key, StringsOf(SegmentsOf(InputOr(src, f.param, Str("")).str)))

\* C15: in the structured body of the request in flight every
\* comma-separated list field has no key when its text has no non-empty
\* trimmed segment, and otherwise holds the array of the trimmed non-empty
\* segments in their order, as decimal integers under the three numeric-ID
\* keys and as texts under every other key.
C15_ListFields == BodyFollows(IsList, ListRule)

\* A contact search in flight whose lists are all "1, 2,3".
C15_Witness ==
    /\ InFlight
    /\ Structured(CurrentItem)
    /\ ResourceOf(CurrentItem) = "contact"
    /\ OperationOf(CurrentItem) = "search"
    /\ InputOr(CurrentItem, "contactSearchObjectIds", Str("")) = Str("1, 2,3")
    /\ InputOr(CurrentItem, "contactSearchExternalPropertyEmptyIds", Str("")) = Str("1, 2,3")
    /\ Holds(RequestBody, "ObjectIds", Arr(<<Str("1"), Str("2"), Str("3")>>))
    /\ Holds(RequestBody, "ExternalPropertyEmptyIds", Arr(<<Num(1), Num(2), Num(3)>>))

\* ------------------------------------------------------------------ C16
\* The include options of an item: the parsed includeOptions parameter of
\* the resources that offer it, no option for the resources that do not.
OffersIncludeOptions(item) ==
    ResourceOf(item) \in {"company", "contact", "deal", "note", "activity"}
IncludeOptionsOf(item) ==
    IF OffersIncludeOptions(item) /\ HoldsJsonObject(item, "includeOptions")
    THEN ParsedOf(item, "includeOptions").obj
    ELSE IF OffersIncludeOptions(item) /\ "includeOptions" \in DOMAIN item
            /\ IsObj(item["includeOptions"])
         THEN item["includeOptions"].obj
         ELSE EmptyObject
\* The include options are a mapping, the text of one, or unset.
IncludeOptionsGiven(item) ==
    \/ ~OffersIncludeOptions(item)
    \/ InputOr(item, "includeOptions", Str("")) \in {Str(""), Null}
    \/ IsObj(InputOr(item, "includeOptions", Str("")))
    \/ HoldsJsonObject(item, "includeOptions")
QueryIs(q) == IF q = EmptyObject THEN "qs" \notin DOMAIN request ELSE Holds(request, "qs", Obj(q))

\* C16: the request in flight for a get (by objectId, userId or importId) is
\* a GET on the element of the collection, has no body whatever the
\* additional fields of the item hold, and has the parsed include options
\* (a mapping, or the text of one) as its query, no query when there is none.
C16_GetRequests ==
    (/\ InFlight
     /\ Offered(CurrentItem)
     /\ OperationOf(CurrentItem) = "get"
     /\ IncludeOptionsGiven(CurrentItem)) =>
        /\ request["method"] = Str("GET")
        /\ request["url"] = Str(BaseUrlOf(credentials) \o "/api/v" \o VersionOf(CurrentItem)
                                \o "/" \o Collection(ResourceOf(CurrentItem))
                                \o "/" \o IdOf(CurrentItem))
        /\ "body" \notin DOMAIN request
        /\ QueryIs(IncludeOptionsOf(CurrentItem))

\* company get of "123" in flight with include options and additional fields.
C16_Witness ==
    /\ InFlight
    /\ ResourceOf(CurrentItem) = "company"
    /\ OperationOf(CurrentItem) = "get"
    /\ CurrentItem["objectId"] = Str("123")
    /\ InputOr(CurrentItem, "includeOptions", Undefined) = Str("{\"k\":1}")
    /\ EntriesOf(CurrentItem, "dataAdditionalFields") # <<>>
    /\ EntriesOf(CurrentItem, "searchAdditionalFields") # <<>>
    /\ request["method"] = Str("GET")
    /\ request["url"] = Str(BaseUrlOf(credentials) \o "/api/v1/Accounts/123")
    /\ Holds(request, "qs", Obj(Bag1("k", Num(1))))
    /\ "body" \notin DOMAIN request

\* ------------------------------------------------------------------ C17
PageOf(item) ==
    [k \in {"limit", "offset"} |->
        IF k = "limit" THEN InputOr(item, "limit", Num(50)) ELSE InputOr(item, "offset", Num(0))]
GetAllShape ==
    /\ request["method"] = Str("GET")
    /\ request["url"] = Str(BaseUrlOf(credentials) \o "/api/v" \o VersionOf(CurrentItem)
                            \o "/" \o Collection(ResourceOf(CurrentItem)))
    /\ "body" \notin DOMAIN request

\* C17 as stated: the request in flight for a getAll is a GET on the root of
\* the collection without a body whose query is limit and offset (50 and 0
\* when left alone) merged with the parsed include options.
C17_EveryGetAll ==
    (/\ InFlight
     /\ Offered(CurrentItem)
     /\ OperationOf(CurrentItem) = "getAll"
     /\ IncludeOptionsGiven(CurrentItem)) =>
        /\ GetAllShape
        /\ QueryIs(IncludeOptionsOf(CurrentItem) @@ PageOf(CurrentItem))

\* The filters of import getAll: type and statusType, each when chosen.
ImportFiltersOf(item) ==
    IF ResourceOf(item) # "import" THEN EmptyObject
    ELSE [k \in { x \in {"type", "statusType"} :
                    InputOr(item, IF x = "type" THEN "importType" ELSE "importStatus", Str(""))
                        # Str("") } |->
            item[IF k = "type" THEN "importType" ELSE "importStatus"]]

\* C17 amended: the request in flight for a getAll is a GET on the root of
\* the collection without a body whose query is limit and offset (50 and 0
\* when left alone), overridden by the keys of the parsed include options,
\* and, for import, the type and statusType filters that were chosen.
C17_GetAllRequests ==
    (/\ InFlight
     /\ Offered(CurrentItem)
     /\ OperationOf(CurrentItem) = "getAll"
     /\ IncludeOptionsGiven(CurrentItem)) =>
        /\ GetAllShape
        /\ QueryIs(IncludeOptionsOf(CurrentItem) @@ ImportFiltersOf(CurrentItem)
                   @@ PageOf(CurrentItem))

\* company getAll in flight with limit and offset left alone and include
\* options that hold a limit of their own.
C17_Witness ==
    /\ InFlight
    /\ ResourceOf(CurrentItem) = "company"
    /\ OperationOf(CurrentItem) = "getAll"
    /\ "limit" \notin DOMAIN CurrentItem
    /\ "offset" \notin DOMAIN CurrentItem
    /\ InputOr(CurrentItem, "includeOptions", Undefined) = Str("{\"limit\":9,\"x\":\"y\"}")
    /\ request["url"] = Str(BaseUrlOf(credentials) \o "/api/v1/Accounts")
    /\ DOMAIN request["qs"].obj = {"limit", "offset", "x"}
    /\ request["qs"].obj["limit"] = Num(9)
    /\ request["qs"].obj["offset"] = Num(0)
    /\ request["qs"].obj["x"] = Str("y")

\* ------------------------------------------------------------------ C18
\* What execute passes to cronoApiRequest for the current item.
Passed == BuildRequest(CurrentItem, itemIndex).val
HasKeys(v) == IsObj(v) /\ DOMAIN v.obj # {}

\* C18: the request in flight carries a query exactly when the query mapping
\* passed to cronoApiRequest has a key, and then that mapping; it carries a
\* body exactly when the body passed is a mapping with a key, and then that
\* mapping; and every output item holds the response of its call as it came.
C18_AttachAndReturn ==
    /\ (InFlight /\ IsObj(Passed.qs) /\ (Passed.body = Undefined \/ IsObj(Passed.body))) =>
        /\ "qs" \in DOMAIN request <=> HasKeys(Passed.qs)
        /\ HasKeys(Passed.qs) => request["qs"] = Passed.qs
        /\ "body" \in DOMAIN request <=> HasKeys(Passed.body)
        /\ HasKeys(Passed.body) => request["body"] = Passed.body
    /\ \A k \in 1..Len(returnData) :
        /\ k <= Len(calls)
        /\ returnData[k].json = calls[k].response
        /\ returnData[k].json \in Responses

\* A response has come back for a company getAll (a query, no body) and a
\* task create (a body, an empty query) is in flight.
C18_Witness ==
    /\ InFlight
    /\ itemIndex = 1
    /\ Len(returnData) = 1
    /\ returnData[1].json = calls[1].response
    /\ "qs" \in DOMAIN calls[1].options
    /\ "body" \notin DOMAIN calls[1].options
    /\ ResourceOf(CurrentItem) = "task"
    /\ Passed.qs = Obj(EmptyObject)
    /\ "qs" \notin DOMAIN request
    /\ "body" \in DOMAIN request

\* ------------------------------------------------------------------ C19
\* C19: the request of every call is the request the item of the call gets
\* as the only item of a batch: it depends on the parameters of that item
\* alone, not on the items before it, their number or their responses.
C19_PerItemRequest ==
    /\ \A k \in 1..Len(calls) : calls[k].options = RequestOf(items[k], 0)
    /\ InFlight => request = RequestOf(CurrentItem, 0)
    /\ \A i, j \in 1..Len(calls) : items[i] = items[j] => calls[i].options = calls[j].options

\* The third item of a batch is in flight; it has the parameters of the
\* first item, another item with another request came in between, and the
\* third request is the first one again.
C19_Witness ==
    /\ InFlight
    /\ itemIndex = 2
    /\ items[3] = items[1]
    /\ items[2] # items[1]
    /\ calls[2].options # calls[1].options
    /\ calls[1].response # calls[2].response
    /\ "body" \in DOMAIN calls[2].options
    /\ "body" \notin DOMAIN request
    /\ request = calls[1].options

\* ------------------------------------------------------------------ C20
SearchOnly == {"list", "strategy", "externalProperty"}
SearchPathOf(item) ==
    CASE ResourceOf(item) = "list" -> "/CronoLists/search"
      [] ResourceOf(item) = "externalProperty" -> "/ExternalProperties/search"
      [] OTHER -> IF OperationOf(item) = "searchDetails"
                  THEN "/Strategies/details" ELSE "/Strategies/search"

\* C20: every call issued for an item of resource list, strategy or
\* externalProperty is a POST on the search endpoint of the resource
\* (Strategies/details for searchDetails), whatever the operation of the
\* item is.
C20_SearchOnlyResources ==
    \A k \in 1..Len(calls) :
        ResourceOf(items[k]) \in SearchOnly =>
            /\ calls[k].options["method"] = Str("POST")
            /\ calls[k].options["url"] = Str(BaseUrlOf(credentials) \o "/api/v"
                                             \o VersionOf(items[k]) \o SearchPathOf(items[k]))

\* An externalProperty item whose operation is getAll is in flight as a POST
\* on ExternalProperties/search.
C20_Witness ==
    /\ InFlight
    /\ ResourceOf(CurrentItem) = "externalProperty"
    /\ OperationOf(CurrentItem) = "getAll"
    /\ request["method"] = Str("POST")
    /\ request["url"] = Str(BaseUrlOf(credentials) \o "/api/v1/ExternalProperties/search")

\* ------------------------------------------------------------------ C21
IsTaskSearch(item) == ResourceOf(item) = "task" /\ OperationOf(item) = "search"
TaskQueryOf(item) ==
    IF InputOr(item, "withOpportunities", Bool(FALSE)) = Bool(TRUE)
    THEN Bag1("withOpportunities", Bool(TRUE))
    ELSE EmptyObject
PageHolds(item, key, param, default) ==
    key \notin AdditionalKeys(item) => Holds(RequestBody, key, InputOr(item, param, default))

\* C21: the task search in flight has the query {withOpportunities: true}
\* when withOpportunities is true and no query otherwise, raw or structured;
\* its structured body holds Limit and Offset at the top with the values of
\* taskSearchLimit and taskSearchOffset (50 and 0 when left alone), 0
\* included, unless an additional field of that name replaces them.
C21_TaskSearch ==
    (InFlight /\ IsTaskSearch(CurrentItem)) =>
        /\ QueryIs(TaskQueryOf(CurrentItem))
        /\ ~IsRaw(CurrentItem) =>
            /\ PageHolds(CurrentItem, "Limit", "taskSearchLimit", Num(50))
            /\ PageHolds(CurrentItem, "Offset", "taskSearchOffset", Num(0))

\* The scenario of the claim: withOpportunities true, structured,
\* taskSearchLimit 10, the offset left alone.
C21_Witness ==
    /\ InFlight
    /\ IsTaskSearch(CurrentItem)
    /\ ~IsRaw(CurrentItem)
    /\ InputOr(CurrentItem, "withOpportunities", Bool(FALSE)) = Bool(TRUE)
    /\ InputOr(CurrentItem, "taskSearchLimit", Num(50)) = Num(10)
    /\ "taskSearchOffset" \notin DOMAIN CurrentItem
    /\ request["method"] = Str("POST")
    /\ request["url"] = Str(BaseUrlOf(credentials) \o "/api/v1/Tasks/search")
    /\ request["qs"] = Obj(Bag1("withOpportunities", Bool(TRUE)))
    /\ RequestBody = [k \in {"Limit", "Offset"} |-> IF k = "Limit" THEN Num(10) ELSE Num(0)]

\* ------------------------------------------------------------------ C22
RequestQuery == IF "qs" \in DOMAIN request THEN request["qs"].obj ELSE EmptyObject
FilterHolds(item, key, param) ==
    IF InputOr(item, param, Str("")) = Str("")
    THEN Absent(RequestQuery, key)
    ELSE Holds(RequestQuery, key, item[param])

\* C22: the query of the import getAll in flight has the key type exactly
\* when importType is not empty, and then with importType, and the key
\* statusType exactly when importStatus is not empty, and then with
\* importStatus.
C22_ImportFilters ==
    (InFlight /\ ResourceOf(CurrentItem) = "import" /\ OperationOf(CurrentItem) = "getAll") =>
        /\ FilterHolds(CurrentItem, "type", "importType")
        /\ FilterHolds(CurrentItem, "statusType", "importStatus")

\* import getAll in flight with importType "Account" and importStatus "".
C22_Witness ==
    /\ InFlight
    /\ ResourceOf(CurrentItem) = "import"
    /\ OperationOf(CurrentItem) = "getAll"
    /\ InputOr(CurrentItem, "importType", Str("")) = Str("Account")
    /\ InputOr(CurrentItem, "importStatus", Str("x")) = Str("")
    /\ request["method"] = Str("GET")
    /\ request["url"] = Str(BaseUrlOf(credentials) \o "/api/v1/Import")
    /\ Holds(RequestQuery, "type", Str("Account"))
    /\ Absent(RequestQuery, "statusType")

\* ------------------------------------------------------------------ C23
Defaults == { Obj(EmptyObject), Obj(Bag1("d", Num(0))) }
JsonParamsOf(item) ==
    JsonParams \cup { p \in JsonFieldParams(companySearchFields) : p \in DOMAIN item }
RawOf(item, param) == InputOr(item, param, Undefined)
JsonParameterRule(item, param, default) ==
    /\ RawOf(item, param) \in {Str(""), Undefined, Null} =>
        getJsonParameter(item, param, 0, default) = Ok(default)
    /\ (~IsStr(RawOf(item, param)) /\ RawOf(item, param) \notin {Undefined, Null}) =>
        getJsonParameter(item, param, 0, default) = Ok(item[param])
    /\ HoldsJsonObject(item, param) =>
        getJsonParameter(item, param, 0, default) = Ok(ParsedOf(item, param))

\* C23: for every item of the batch, every JSON-typed parameter and every
\* default, getJsonParameter returns the default when the parameter is the
\* empty string, absent or null, returns a value that is not a text as it
\* is, and returns the parsed object when the value is the text of a JSON
\* object.
C23_JsonParameter ==
    \A i \in 1..Len(items) : \A param \in JsonParamsOf(items[i]) : \A default \in Defaults :
        JsonParameterRule(items[i], param, default)

\* A raw company create in flight: data is the text of an object, scrape
\* options are an object already, include options are the empty string.
C23_Witness ==
    /\ InFlight
    /\ ResourceOf(CurrentItem) = "company"
    /\ OperationOf(CurrentItem) = "create"
    /\ IsRaw(CurrentItem)
    /\ RawOf(CurrentItem, "data") = Str("{\"k\":1}")
    /\ RawOf(CurrentItem, "scrapeOptions") = Obj(Bag1("k", Num(1)))
    /\ RawOf(CurrentItem, "includeOptions") = Str("")
    /\ RawOf(CurrentItem, "search") = Null
    /\ getJsonParameter(CurrentItem, "includeOptions", itemIndex, Obj(EmptyObject)) = Ok(Obj(EmptyObject))
    /\ request["body"] = Obj([k \in {"data", "scrapeOptions"} |-> Obj(Bag1("k", Num(1)))])

\* ------------------------------------------------------------------ C24
IsDataOperation(item) == Offered(item) /\ OperationOf(item) \in {"create", "update", "import"}
OffersScrapeOptions(item) ==
    ResourceOf(item) \in {"company", "contact"} /\ OperationOf(item) = "create"

\* The scrape options of an item when they are a mapping, the text of one,
\* or unset.
ScrapeOptionsGiven(item) ==
    \/ RawOf(item, "scrapeOptions") \in {Str(""), Undefined, Null}
    \/ IsObj(RawOf(item, "scrapeOptions"))
    \/ HoldsJsonObject(item, "scrapeOptions")
ScrapeOptionsOf(item) ==
    IF HoldsJsonObject(item, "scrapeOptions") THEN ParsedOf(item, "scrapeOptions")
    ELSE IF IsObj(RawOf(item, "scrapeOptions")) THEN item["scrapeOptions"]
    ELSE Obj(EmptyObject)

\* C24: the request in flight for a create, update or import has a body
\* with the key data and no other key, except that the create of a company
\* or contact also has the key scrapeOptions, with the parsed scrape
\* options, exactly when they have a key.
C24_DataBodies ==
    (InFlight /\ IsDataOperation(CurrentItem)) =>
        /\ "body" \in DOMAIN request
        /\ IsObj(request["body"])
        /\ "data" \in DOMAIN RequestBody
        /\ DOMAIN RequestBody \subseteq {"data", "scrapeOptions"}
        /\ "scrapeOptions" \in DOMAIN RequestBody => OffersScrapeOptions(CurrentItem)
        /\ (OffersScrapeOptions(CurrentItem) /\ ScrapeOptionsGiven(CurrentItem)) =>
            IF HasKeys(ScrapeOptionsOf(CurrentItem))
            THEN Holds(RequestBody, "scrapeOptions", ScrapeOptionsOf(CurrentItem))
            ELSE Absent(RequestBody, "scrapeOptions")

\* A structured contact create in flight with scrape options typed as the
\* text of an object with a key.
C24_Witness ==
    /\ InFlight
    /\ ResourceOf(CurrentItem) = "contact"
    /\ OperationOf(CurrentItem) = "create"
    /\ ~IsRaw(CurrentItem)
    /\ RawOf(CurrentItem, "scrapeOptions") = Str("{\"k\":1}")
    /\ request["method"] = Str("POST")
    /\ DOMAIN RequestBody = {"data", "scrapeOptions"}
    /\ RequestBody["scrapeOptions"] = Obj(Bag1("k", Num(1)))

\* ------------------------------------------------------------------ C25
IsStructuredImport(item) ==
    Structured(item) /\ OperationOf(item) = "import" /\ ResourceOf(item) \in {"company", "contact"}
KeysOfFields(fields) == { fields[j].key : j \in 1..Len(fields) }

\* The inclusion rule of a field of a group: texts when not empty, numbers
\* when not 0, a mapping when it has a key.
GroupRule(f, src, o) ==
    CASE IsStringField(f) -> StringRule(f, src, o)
      [] f.type = "number" -> OmitsZero(f, src, o)
      [] IsObj(InputOr(src, f.param, Obj(EmptyObject))) ->
            IF HasKeys(InputOr(src, f.param, Obj(EmptyObject)))
            THEN Holds(o, f.key, src[f.param])
            ELSE Absent(o, f.key)
      [] OTHER -> TRUE
GroupElements(item) == TopObject[GroupsOf(ResourceOf(item)).key].arr

IsJsonError(err) ==
    /\ err.kind = "NodeOperationError"
    /\ \E p \in DOMAIN CurrentItem \cup JsonParams :
        err.message = "Parameter \"" \o p \o "\" is not valid JSON."
IsUnsupportedError(err) ==
    /\ err.kind = "NodeOperationError"
    /\ err.message = "Unsupported resource: " \o Template(InputOr(CurrentItem, "resource", Undefined))

\* C26: once execute has failed with a JSON-parse error or an
\* unsupported-resource error, no call has been issued for the item that
\* failed: the calls are those of the items before it and none is in flight.
C26_NoRequestOnBuildError ==
    (pc = "thrown" /\ (IsJsonError(error) \/ IsUnsupportedError(error))) =>
        /\ error.itemIndex = itemIndex
        /\ CallsOf(itemIndex) = {}
        /\ Len(calls) = itemIndex
        /\ request = NoRequest

\* The second item of a batch holds malformed JSON: execute has failed after
\* the one call of the first item.
C26_Witness ==
    /\ pc = "thrown"
    /\ itemIndex = 1
    /\ IsJsonError(error)
    /\ error.message = "Parameter \"search\" is not valid JSON."
    /\ Len(calls) = 1
    /\ calls[1].item = 0
    /\ calls[1].response \in Responses

\* ------------------------------------------------------------------ C27
\* C27: once execute has failed at item k, nothing is returned: the calls of
\* the k items before it were issued and answered and their responses are
\* in returnData, which never becomes the result.
C27_NothingReturnedOnFailure ==
    pc = "thrown" =>
        /\ result = NoResult
        /\ error # NoError
        /\ Len(returnData) = itemIndex
        /\ \A k \in 1..itemIndex :
            /\ calls[k].item = k - 1
            /\ calls[k].response \in Responses
            /\ returnData[k].json = calls[k].response

\* The third item of a batch fails after the first two were answered.
C27_Witness ==
    /\ pc = "thrown"
    /\ Len(items) = 3
    /\ itemIndex = 2
    /\ Len(returnData) = 2
    /\ returnData[1].json \in Responses
    /\ returnData[2].json \in Responses
    /\ result = NoResult

\* ------------------------------------------------------------------ C28
FallThroughResources ==
    {"company", "contact", "deal", "note", "task", "activity", "user", "import"}
Unmatched(item) ==
    /\ ResourceOf(item) \in FallThroughResources
    /\ OperationOf(item) \notin OfferedOperations(ResourceOf(item))
FallsThrough(query) ==
    /\ pc = "thrown" => error = HttpError
    /\ InFlight =>
        /\ request["method"] = Str("GET")
        /\ request["url"] = Str(BaseUrlOf(credentials) \o "/api/v" \o VersionOf(CurrentItem)
                                \o "/" \o Collection(ResourceOf(CurrentItem)))
        /\ "body" \notin DOMAIN request
        /\ QueryIs(query)

\* C28 as stated: an item of one of the eight resources whose operation the
\* resource does not handle raises no error while its request is built, and
\* its request is a GET on the root of the collection with no body and no
\* query.
C28_FallThroughEmptyQuery ==
    (pc \in {"await", "thrown"} /\ Unmatched(CurrentItem)) => FallsThrough(EmptyObject)

\* C28 amended: such an item raises no error while its request is built, and
\* its request is a GET on the root of the collection with no body; it has
\* no query, except that the operation getAll (which task does not handle)
\* has the query of limit and offset, 50 and 0 when left alone.
C28_FallThrough ==
    (pc \in {"await", "thrown"} /\ Unmatched(CurrentItem)) =>
        FallsThrough(IF OperationOf(CurrentItem) = "getAll"
                     THEN PageOf(CurrentItem) ELSE EmptyObject)

\* task with operation get is in flight as GET /api/v1/Tasks.
C28_Witness ==
    /\ InFlight
    /\ ResourceOf(CurrentItem) = "task"
    /\ OperationOf(CurrentItem) = "get"
    /\ request["method"] = Str("GET")
    /\ request["url"] = Str(BaseUrlOf(credentials) \o "/api/v1/Tasks")
    /\ "qs" \notin DOMAIN request
    /\ "body" \notin DOMAIN request

\* ------------------------------------------------------------------ C29
\* A text that is valid JSON but not an object: a number, a quoted string,
\* true, false or null.
HoldsJsonScalar(item, param) ==
    /\ param \in DOMAIN item
    /\ IsStr(item[param])
    /\ item[param] # Str("")
    /\ JsonParse(item[param].str).ok
    /\ ~IsObj(JsonParse(item[param].str).val)
    /\ ~IsArr(JsonParse(item[param].str).val)

\* C29: for every item of the batch, every JSON-typed parameter that holds
\* the text of a JSON number, string, boolean or null makes getJsonParameter
\* return that very text, with no error; and the structured company search
\* in flight whose ExternalProperties parameter is such a text carries the
\* text under the key ExternalProperties.
C29_ScalarJsonIsRawText ==
    /\ \A i \in 1..Len(items) : \A param \in JsonParamsOf(items[i]) : \A default \in Defaults :
        HoldsJsonScalar(items[i], param) =>
            getJsonParameter(items[i], param, 0, default) = Ok(items[i][param])
    /\ (/\ pc \in {"await", "thrown"}
        /\ ResourceOf(CurrentItem) = "company"
        /\ OperationOf(CurrentItem) = "search"
        /\ ~IsRaw(CurrentItem)
        /\ HoldsJsonScalar(CurrentItem, "companySearchExternalProperties")) =>
            /\ pc = "thrown" => error = HttpError
            /\ InFlight => Holds(RequestBody, "ExternalProperties",
                                 CurrentItem["companySearchExternalProperties"])

\* A structured company search in flight whose ExternalProperties parameter
\* is the text 5.
C29_Witness ==
    /\ InFlight
    /\ ResourceOf(CurrentItem) = "company"
    /\ OperationOf(CurrentItem) = "search"
    /\ ~IsRaw(CurrentItem)
    /\ RawOf(CurrentItem, "companySearchExternalProperties") = Str("5")
    /\ getJsonParameter(CurrentItem, "companySearchExternalProperties", itemIndex, Obj(EmptyObject)) = Ok(Str("5"))
    /\ Holds(RequestBody, "ExternalProperties", Str("5"))

\* ------------------------------------------------------------------ C30
\* The names whose last entry has the empty string as its value or no value.
EmptyValued(entries) ==
    { key \in NamedKeys(entries) :
        InputOr(LastEntryOf(entries, key), "value", Str("")) \in {Str(""), Undefined, Null} }
GeneratedKeys(item) ==
    KeysOfFields(FieldsOf(ResourceOf(item), OperationOf(item)))

\* C30: in the structured body of the request in flight every additional
\* field with a name and an empty or missing value has its key with the
\* value "", whether or not the fields of the form generate that key.
C30_EmptyAdditionalValue ==
    (InFlight /\ Structured(CurrentItem)) =>
        \A key \in EmptyValued(DeclaredEntries(CurrentItem)) : Holds(TopObject, key, Str(""))

\* A company search in flight with its Name field filled and the additional
\* entries Name and Extra, both with the empty string.
C30_Witness ==
    /\ InFlight
    /\ Structured(CurrentItem)
    /\ ResourceOf(CurrentItem) = "company"
    /\ OperationOf(CurrentItem) = "search"
    /\ InputOr(CurrentItem, "companySearchName", Str("")) = Str("companySearchName")
    /\ DeclaredEntries(CurrentItem) = <<Entry("Name", ""), Entry("Extra", "")>>
    /\ "Name" \in GeneratedKeys(CurrentItem)
    /\ "Extra" \notin GeneratedKeys(CurrentItem)
    /\ Holds(RequestBody, "Name", Str(""))
    /\ Holds(RequestBody, "Extra", Str(""))
    /\ Holds(RequestBody, "Industry", Str("companySearchIndustry"))

=============================================================================
